---- MODULE Spec2Model ----
(***************************************************************************)
(* Model of the bulk CSV import pipeline of mydevices-cli.                 *)
(*                                                                         *)
(* Text values (CSV cells, column names, location names, paths, hardware   *)
(* ids) are sequences of one-character strings, so that joining level      *)
(* names with "/" and counting path segments are computed as the code      *)
(* computes them.  Mapping targets ("location.city", "device.hardware_id") *)
(* are TLA+ strings.  A missing value (undefined) and the empty string are *)
(* both the empty sequence: the code only ever tests them for truthiness.  *)
(***************************************************************************)
EXTENDS Integers, Sequences, FiniteSets, TLC

VARIABLES
    csvFile,            \* the CSV file: whether it exists and its lines
    options,            \* the command's options company, delimiter, mapping, sensorUse
                        \* and deviceSetting
    parsedCSV,          \* parsedCSV.headers and parsedCSV.delimiter
    validation,         \* value returned by validateMapping
    locationDefaults,   \* options.locationDefaults: attribute -> value
    networkUsed,        \* whether the process has issued a network request
    csvRows,            \* parsedCSV.rows: sequence of rows, each column name -> cell text
    mappings,           \* ColumnMapping: sequence of [column, targets] in insertion
                        \* order; before the mapping step, what the mapping file
                        \* holds or the operator is about to enter
    hierarchy,          \* HierarchyMapping.columns: ordered column names
    rows,               \* ParsedRow[] given to bulkImport
    dryRun,             \* options.dryRun
    prefixLocationName, \* options.prefixLocationName
    deviceTypeId,       \* options.deviceTypeId ("" when not given)
    deviceSettings,     \* options.deviceSettings: key -> value
    remoteLocations,    \* the server's locations, in listing order
    remoteDevices,      \* the server's devices created so far
    pc,                 \* position of the import command / bulkImport
    existingLocations,  \* bulkImport: path -> remote Location
    allLocations,       \* fetchExistingLocations: the locations the server listed
    fetchOk,            \* whether the existing-location fetch returned normally
    locationPaths,      \* bulkImport: LocationNode list in Map insertion order
    sortedPaths,        \* bulkImport: resolution order
    locIdx,             \* index of the next path of sortedPaths to resolve
    locationIdMap,      \* bulkImport: path -> remote id (DryRunId = placeholder)
    templateMap,        \* bulkImport: template id -> TemplateInfo
    registry,           \* value returned by validateHardwareIds
    rowIdx,             \* index of the next row of the device loop
    summary,            \* ImportSummary
    calls,              \* mutating remote calls issued so far, in order
    run,                \* 1 for the first bulkImport pass, 2 for a re-run
    prev,               \* what the first pass left behind (when run = 2)
    outputFile,         \* "failed" once writing the --output file threw, else "ok"
    exitCode,           \* process exit code, -1 while the process is running
    colIdx,             \* interactiveMapping: i, the index of the column being asked
    alreadyMapped,      \* interactiveMapping: the set alreadyMapped
    snapshots,          \* for each column asked so far, the mapping state just before
                        \* it was mapped (kept for the properties of undo)
    deviceProperties    \* the properties field of a device the server has created

vars == <<csvFile, options, parsedCSV, validation, locationDefaults, networkUsed,
          csvRows, mappings, hierarchy, rows, dryRun, prefixLocationName,
          deviceTypeId, deviceSettings, remoteLocations, remoteDevices, pc,
          existingLocations, allLocations, fetchOk, locationPaths, sortedPaths, locIdx,
          locationIdMap, templateMap, registry, rowIdx, summary, calls, run,
          prev, outputFile, exitCode, colIdx, alreadyMapped, snapshots,
          deviceProperties>>

\* what the import command settles before it calls bulkImport
commandVars == <<csvFile, options, parsedCSV, validation, locationDefaults>>

\* the loop variables of interactiveMapping
mapperVars == <<colIdx, alreadyMapped, snapshots>>

-----------------------------------------------------------------------------
(* Text helpers *)

EmptyMap == [x \in {} |-> x]

Get(m, k) == IF k \in DOMAIN m THEN m[k] ELSE <<>>

Put(m, k, v) == (k :> v) @@ m

\* the white space characters the inputs use
WhiteSpace == {" ", "\t"}

RECURSIVE TrimLeft(_)
TrimLeft(s) == IF s /= <<>> /\ Head(s) \in WhiteSpace THEN TrimLeft(Tail(s)) ELSE s

RECURSIVE TrimRight(_)
TrimRight(s) ==
    IF s /= <<>> /\ s[Len(s)] \in WhiteSpace
    THEN TrimRight(SubSeq(s, 1, Len(s) - 1)) ELSE s

\* String.prototype.trim
Trim(s) == TrimRight(TrimLeft(s))

\* number of "/" characters in a text
RECURSIVE CountSlashes(_)
CountSlashes(s) ==
    IF s = <<>> THEN 0
    ELSE (IF Head(s) = "/" THEN 1 ELSE 0) + CountSlashes(Tail(s))

\* path.split('/').length
Depth(path) == CountSlashes(path) + 1

\* `${a}/${b}`
JoinPath(a, b) == a \o <<"/">> \o b

-----------------------------------------------------------------------------
(* Row transformation *)

HierarchyTarget == "location.hierarchy"

LocationAttrs ==
    {"external_id", "address", "city", "state", "country", "zip", "timezone", "industry"}

DeviceAttrs ==
    {"hardware_id", "name", "external_id", "device_type_id", "sensor_use",
     "sensor_type", "device_category"}

MetadataKeys == {"k1", "k2"}

\* target.startsWith('location.') and the field left by target.replace('location.', '')
IsLocationTarget(t) == \E f \in LocationAttrs : t = "location." \o f
LocationField(t) == CHOOSE f \in LocationAttrs : t = "location." \o f

\* target.startsWith('device.metadata.')
IsMetadataTarget(t) == \E k \in MetadataKeys : t = "device.metadata." \o k
MetadataKey(t) == CHOOSE k \in MetadataKeys : t = "device.metadata." \o k

\* target.startsWith('device.')
IsDeviceTarget(t) == \E f \in DeviceAttrs : t = "device." \o f
DeviceField(t) == CHOOSE f \in DeviceAttrs : t = "device." \o f

\* mutant of HierarchyLevels: a blank level is passed over, the deeper ones kept
RECURSIVE HierarchyLevelsSkipBlank(_, _, _)
HierarchyLevelsSkipBlank(row, columns, i) ==
    IF i > Len(columns) THEN <<>>
    ELSE LET value == Trim(Get(row, columns[i]))
         IN  (IF value = <<>> THEN <<>>
              ELSE <<[columnName |-> columns[i], value |-> value]>>)
                \o HierarchyLevelsSkipBlank(row, columns, i + 1)

\* for (const columnName of hierarchy.columns) { ...; if (!value) break; push }
RECURSIVE HierarchyLevels(_, _, _)
HierarchyLevels(row, columns, i) ==
    IF i > Len(columns) THEN <<>>
    ELSE LET value == Trim(Get(row, columns[i]))
         IN  IF value = <<>> THEN <<>>
             ELSE <<[columnName |-> columns[i], value |-> value]>>
                    \o HierarchyLevels(row, columns, i + 1)

\* one target of one mapped column applied to the row being built
ApplyTarget(parsed, target, value) ==
    IF target = HierarchyTarget THEN parsed
    ELSE IF IsLocationTarget(target)
    THEN [parsed EXCEPT !.locationMeta = Put(@, LocationField(target), value)]
    ELSE IF IsMetadataTarget(target)
    THEN [parsed EXCEPT !.metadata = Put(@, MetadataKey(target), value)]
    ELSE IF IsDeviceTarget(target)
    THEN [parsed EXCEPT !.device = Put(@, DeviceField(target), value)]
    ELSE parsed

RECURSIVE ApplyTargets(_, _, _, _)
ApplyTargets(parsed, targets, value, j) ==
    IF j > Len(targets) THEN parsed
    ELSE ApplyTargets(ApplyTarget(parsed, targets[j], value), targets, value, j + 1)

\* for (const [csvColumn, rawTarget] of Object.entries(mappings)) { ... }
RECURSIVE ApplyMappings(_, _, _, _)
ApplyMappings(parsed, row, maps, i) ==
    IF i > Len(maps) THEN parsed
    ELSE LET value == Trim(Get(row, maps[i].column))
             next  == IF value = <<>> THEN parsed
                      ELSE ApplyTargets(parsed, maps[i].targets, value, 1)
         IN  ApplyMappings(next, row, maps, i + 1)

transformRow(row, index, maps, columns) ==
    ApplyMappings(
        [rowNumber         |-> index + 2,
         locationHierarchy |-> HierarchyLevels(row, columns, 1),
         locationMeta      |-> EmptyMap,
         device            |-> EmptyMap,
         metadata          |-> EmptyMap],
        row, maps, 1)

\* rows.map((row, index) => ...), index counted from 0
transformRows(rs, maps, columns) ==
    [i \in 1..Len(rs) |-> transformRow(rs[i], i - 1, maps, columns)]

-----------------------------------------------------------------------------
(* Location paths *)

formatLocationName(level, prefixColumnName) ==
    IF prefixColumnName THEN level.columnName \o <<" ">> \o level.value
    ELSE level.value

HasPath(locations, path) == \E k \in 1..Len(locations) : locations[k].path = path

NodeAt(locations, path) ==
    locations[CHOOSE k \in 1..Len(locations) : locations[k].path = path]

\* the inner loop of buildLocationPaths over the levels i..length of one row
RECURSIVE AddLevels(_, _, _, _, _)
AddLevels(locations, row, i, currentPath, prefixColumnName) ==
    IF i > Len(row.locationHierarchy) THEN locations
    ELSE LET level      == row.locationHierarchy[i]
             name       == formatLocationName(level, prefixColumnName)
             parentPath == currentPath
             path       == IF currentPath /= <<>> THEN JoinPath(currentPath, name) ELSE name
             isDeepest  == i = Len(row.locationHierarchy)
             added      == IF HasPath(locations, path) THEN locations
                           ELSE Append(locations,
                                       [path       |-> path,
                                        name       |-> name,
                                        parentPath |-> parentPath,
                                        hasMeta    |-> isDeepest,
                                        meta       |-> IF isDeepest THEN row.locationMeta
                                                       ELSE EmptyMap])
         IN  AddLevels(added, row, i + 1, path, prefixColumnName)

RECURSIVE AddRows(_, _, _, _)
AddRows(locations, rs, r, prefixColumnName) ==
    IF r > Len(rs) THEN locations
    ELSE AddRows(AddLevels(locations, rs[r], 1, <<>>, prefixColumnName),
                 rs, r + 1, prefixColumnName)

\* Map<string, LocationNode> as the list of its values in insertion order
buildLocationPaths(rs, prefixColumnName) == AddRows(<<>>, rs, 1, prefixColumnName)

\* mutant of compareDepth: the operands of the subtraction swapped
compareDepthSwapped(a, b) == Depth(b) - Depth(a)

\* the comparator of entries.sort: negative when a sorts before b
compareDepth(a, b) == Depth(a) - Depth(b)

\* Array.prototype.sort is stable: x goes after every element that does not sort after it
RECURSIVE InsertSorted(_, _)
InsertSorted(sorted, x) ==
    IF sorted = <<>> THEN <<x>>
    ELSE LET last == sorted[Len(sorted)]
         IN  IF compareDepth(last, x) <= 0 THEN Append(sorted, x)
             ELSE Append(InsertSorted(SubSeq(sorted, 1, Len(sorted) - 1), x), last)

RECURSIVE SortFrom(_, _, _)
SortFrom(sorted, paths, i) ==
    IF i > Len(paths) THEN sorted
    ELSE SortFrom(InsertSorted(sorted, paths[i]), paths, i + 1)

sortLocationsByDepth(locations) ==
    SortFrom(<<>>, [k \in 1..Len(locations) |-> locations[k].path], 1)

\* getDeepestLocationPath: <<>> stands for undefined
RECURSIVE DeepestFrom(_, _, _, _)
DeepestFrom(path, levels, i, prefixColumnName) ==
    IF i > Len(levels) THEN path
    ELSE LET name == formatLocationName(levels[i], prefixColumnName)
         IN  DeepestFrom(IF path /= <<>> THEN JoinPath(path, name) ELSE name,
                         levels, i + 1, prefixColumnName)

getDeepestLocationPath(row, prefixColumnName) ==
    DeepestFrom(<<>>, row.locationHierarchy, 1, prefixColumnName)

-----------------------------------------------------------------------------
(* Paths of the remote locations *)

\* outcome of resolvePath when the recursion never returns (the call stack overflows)
StackOverflow == <<"RangeError">>

HasId(locations, id) == \E k \in 1..Len(locations) : locations[k].id = id

\* idToLocation.get(id): the last listed location with that id
LocationById(locations, id) ==
    locations[CHOOSE k \in 1..Len(locations) :
                /\ locations[k].id = id
                /\ \A j \in (k + 1)..Len(locations) : locations[j].id /= id]

\* mutant of resolvePath: the bare name instead of the chain of names
resolvePathBareName(loc, locations, fuel) == loc.name

\* resolvePath; fuel counts the nested calls still possible before every listed
\* location is on the call chain twice, which only a parent_id cycle can cause
RECURSIVE resolvePath(_, _, _)
resolvePath(loc, locations, fuel) ==
    IF loc.parent_id /= 0 /\ HasId(locations, loc.parent_id)
    THEN IF fuel = 0 THEN StackOverflow
         ELSE LET parentPath ==
                      resolvePath(LocationById(locations, loc.parent_id), locations, fuel - 1)
              IN  IF parentPath = StackOverflow THEN StackOverflow
                  ELSE JoinPath(parentPath, loc.name)
    ELSE loc.name

RECURSIVE SetPaths(_, _, _)
SetPaths(result, locations, i) ==
    IF i > Len(locations) THEN result
    ELSE SetPaths(Put(result, resolvePath(locations[i], locations, Len(locations)),
                      locations[i]),
                  locations, i + 1)

PathsThrow(locations) ==
    \E k \in 1..Len(locations) :
        resolvePath(locations[k], locations, Len(locations)) = StackOverflow

\* Map<string, Location>: path -> the last listed location with that path
buildPathsFromFlatLocations(locations) == SetPaths(EmptyMap, locations, 1)

-----------------------------------------------------------------------------
(* Device templates *)

\* the device-template service: template id -> DeviceTemplate
RemoteTemplates ==
    (<<"t">> :> [category   |-> <<"c">>,
                 device_use |-> <<[name |-> <<"u">>, default |-> TRUE]>>,
                 meta       |-> <<[key |-> "device_type", value |-> <<"y">>]>>])

extractTemplateInfo(template) ==
    LET uses     == {k \in 1..Len(template.device_use) : template.device_use[k].default}
        metas    == {k \in 1..Len(template.meta) : template.meta[k].key = "device_type"}
        First(S) == CHOOSE k \in S : \A j \in S : k <= j
        category == IF template.category /= <<>>
                    THEN ("device_category" :> template.category) ELSE EmptyMap
        use      == IF uses /= {}
                    THEN ("sensor_use" :> template.device_use[First(uses)].name) ELSE EmptyMap
        type     == IF metas /= {}
                    THEN ("sensor_type" :> template.meta[First(metas)].value) ELSE EmptyMap
    IN  category @@ use @@ type

\* [...new Set(rows.filter(r => r.device.device_type_id).map(...))]
TemplateIds(rs) ==
    {Get(rs[i].device, "device_type_id") : i \in 1..Len(rs)} \ {<<>>}

\* validateDeviceTypeConsistency(rows, expectedDeviceTypeId).valid
validateDeviceTypeConsistency(rs, expected) ==
    \A i \in 1..Len(rs) :
        LET found == Get(rs[i].device, "device_type_id")
        IN  ~(found /= <<>> /\ found /= expected)

\* rows.filter(r => r.device.hardware_id).map(r => r.device.hardware_id)
HardwareIds(rs) == {Get(rs[i].device, "hardware_id") : i \in 1..Len(rs)} \ {<<>>}

-----------------------------------------------------------------------------
(* Import summary *)

\* mutant of DryRunId: a placeholder that tests as false
DryRunIdFalsy == 1 - 1

\* locationIdMap.set(path, -1): the placeholder id of a dry run
DryRunId == -1

EmptySummary ==
    [locationsCreated |-> 0, locationsMatched |-> 0, locationsFailed |-> 0,
     devicesCreated   |-> 0, devicesMatched   |-> 0, devicesFailed   |-> 0,
     results          |-> <<>>]

\* an ImportResult; id 0 stands for undefined, error "" for none
Result(success, row, type, action, name, id, error) ==
    [success |-> success, row |-> row, type |-> type, action |-> action,
     name |-> name, id |-> id, error |-> error]

\* mutant of Record: the new result takes the place of the ones recorded before
RecordReplacing(s, counter, result) ==
    [s EXCEPT ![counter] = @ + 1, !.results = <<result>>]

\* summary.<counter>++; summary.results.push(result)
Record(s, counter, result) ==
    [s EXCEPT ![counter] = @ + 1, !.results = Append(@, result)]

\* row.device.name || row.device.hardware_id
DeviceName(row) ==
    IF Get(row.device, "name") /= <<>> THEN Get(row.device, "name")
    ELSE Get(row.device, "hardware_id")

-----------------------------------------------------------------------------
(* CSV parsing *)

\* (firstLine.match(new RegExp(`\\${delim}`, 'g')) || []).length
RECURSIVE CountChar(_, _)
CountChar(s, c) ==
    IF s = <<>> THEN 0
    ELSE (IF Head(s) = c THEN 1 ELSE 0) + CountChar(Tail(s), c)

Delimiters == <<",", ";", "\t", "|">>

\* for (const delim of delimiters) { if (count > maxCount) { maxCount = count; detected = delim } }
RECURSIVE DetectFrom(_, _, _, _)
DetectFrom(firstLine, i, maxCount, detected) ==
    IF i > Len(Delimiters) THEN detected
    ELSE LET count == CountChar(firstLine, Delimiters[i])
         IN  IF count > maxCount
             THEN DetectFrom(firstLine, i + 1, count, Delimiters[i])
             ELSE DetectFrom(firstLine, i + 1, maxCount, detected)

\* mutant of detectDelimiter: among the candidates of highest count the last one
detectDelimiterLast(firstLine) ==
    LET count(i) == CountChar(firstLine, Delimiters[i])
        top      == {i \in 1..Len(Delimiters) :
                        \A j \in 1..Len(Delimiters) : count(j) <= count(i)}
        last     == CHOOSE i \in top : \A j \in top : j <= i
    IN  IF count(last) = 0 THEN "," ELSE Delimiters[last]

detectDelimiter(firstLine) == DetectFrom(firstLine, 1, 0, ",")

\* the character loop of parseCSVLine; i is the index of the next character
RECURSIVE ParseLineFrom(_, _, _, _, _, _)
ParseLineFrom(line, delimiter, i, current, inQuotes, result) ==
    IF i > Len(line) THEN Append(result, Trim(current))
    ELSE LET char == line[i]
         IN  IF char = "\""
             THEN IF inQuotes /\ i < Len(line) /\ line[i + 1] = "\""
                  THEN ParseLineFrom(line, delimiter, i + 2, Append(current, "\""),
                                     inQuotes, result)
                  ELSE ParseLineFrom(line, delimiter, i + 1, current, ~inQuotes, result)
             ELSE IF char = delimiter /\ ~inQuotes
             THEN ParseLineFrom(line, delimiter, i + 1, <<>>, inQuotes,
                                Append(result, Trim(current)))
             ELSE ParseLineFrom(line, delimiter, i + 1, Append(current, char),
                                inQuotes, result)

parseCSVLine(line, delimiter) == ParseLineFrom(line, delimiter, 1, <<>>, FALSE, <<>>)

\* content.split(/\r?\n/).filter((line) => line.trim() !== '')
NonBlankLines(fileLines) == SelectSeq(fileLines, LAMBDA line : Trim(line) /= <<>>)

\* for (j...) row[headers[j]] = values[j] || '': a repeated header keeps its last cell
CsvRow(headers, values) ==
    [h \in {headers[j] : j \in 1..Len(headers)} |->
        LET j == CHOOSE j \in 1..Len(headers) :
                    /\ headers[j] = h
                    /\ \A k \in 1..Len(headers) : headers[k] = h => k <= j
        IN  IF j <= Len(values) THEN values[j] ELSE <<>>]

\* parseCSV on the lines of the file; forcedDelimiter "" when none is forced
parseCSV(fileLines, forcedDelimiter) ==
    LET lines     == NonBlankLines(fileLines)
        delimiter == IF forcedDelimiter /= "" THEN forcedDelimiter
                     ELSE detectDelimiter(lines[1])
        headers   == parseCSVLine(lines[1], delimiter)
    IN  IF Len(lines) = 0
        THEN [thrown |-> TRUE, headers |-> <<>>, rows |-> <<>>, delimiter |-> ""]
        ELSE [thrown    |-> FALSE,
              headers   |-> headers,
              rows      |-> [i \in 1..(Len(lines) - 1) |->
                                CsvRow(headers, parseCSVLine(lines[i + 1], delimiter))],
              delimiter |-> delimiter]

-----------------------------------------------------------------------------
(* Mapping validation *)

\* f.startsWith('device.')
StartsWithDevice(t) == IsDeviceTarget(t) \/ IsMetadataTarget(t)

\* new Set(Object.values(mappings).filter(Boolean).flatMap(...))
MappedFields(maps) ==
    UNION {{maps[i].targets[j] : j \in 1..Len(maps[i].targets)} : i \in 1..Len(maps)}

\* mutant of validateMapping: the device type check left out
validateMappingNoType(maps, columns) ==
    LET mappedFields    == MappedFields(maps)
        hasDeviceFields == \E f \in mappedFields : StartsWithDevice(f)
        hardware == IF hasDeviceFields /\ "device.hardware_id" \notin mappedFields
                    THEN <<"hardware_id">> ELSE <<>>
        levels   == IF Len(columns) = 0 THEN <<"hierarchy">> ELSE <<>>
        errors   == hardware \o levels
    IN  [valid |-> errors = <<>>, errors |-> errors]

validateMapping(maps, columns) ==
    LET mappedFields    == MappedFields(maps)
        hasDeviceFields == \E f \in mappedFields : StartsWithDevice(f)
        hardware == IF hasDeviceFields /\ "device.hardware_id" \notin mappedFields
                    THEN <<"hardware_id">> ELSE <<>>
        type     == IF /\ hasDeviceFields
                       /\ "device.sensor_type" \notin mappedFields
                       /\ "device.device_type_id" \notin mappedFields
                    THEN <<"sensor_type">> ELSE <<>>
        levels   == IF Len(columns) = 0 THEN <<"hierarchy">> ELSE <<>>
        errors   == hardware \o type \o levels
    IN  [valid |-> errors = <<>>, errors |-> errors]

-----------------------------------------------------------------------------
(* The inputs explored *)

\* rows of the CSV file in a single pass, and in a pass followed by a re-run
NumRows == 2
NumRowsRerun == 1
\* locations the server lists before the first pass
MaxRemote == 2

ColS == <<"S">>
ColB == <<"B">>
ColH == <<"H">>
ColT == <<"T">>

\* cells of the two hierarchy columns: blank, a plain name, a name holding the separator
Cells == {<<>>, <<"a">>, <<"a", "/", "a">>}

\* cells of the hardware-id column
HwCells == {<<>>, <<"h">>}

CsvRowSet ==
    {(ColS :> s) @@ (ColB :> b) @@ (ColH :> h) @@ (ColT :> <<"y">>) :
        s \in Cells, b \in Cells, h \in HwCells}

\* S and B are the hierarchy levels, H is the hardware id, T the sensor type
BulkMappings ==
    <<[column |-> ColS, targets |-> <<HierarchyTarget>>],
      [column |-> ColB, targets |-> <<HierarchyTarget>>],
      [column |-> ColH, targets |-> <<"device.hardware_id">>],
      [column |-> ColT, targets |-> <<"device.sensor_type">>]>>

BulkHeaders == <<ColS, ColB, ColH, ColT>>

\* the cells of a line joined by commas
RECURSIVE JoinCells(_)
JoinCells(cells) ==
    IF Len(cells) = 0 THEN <<>>
    ELSE IF Len(cells) = 1 THEN cells[1]
    ELSE cells[1] \o <<",">> \o JoinCells(Tail(cells))

\* the lines of a file with the given header columns and rows
FileWith(headers, rs) ==
    <<JoinCells(headers)>>
        \o [i \in 1..Len(rs) |-> JoinCells([j \in 1..Len(headers) |-> rs[i][headers[j]]])]

\* the lines of a file that parseCSV reads as the rows rs under BulkHeaders
FileOf(rs) == FileWith(BulkHeaders, rs)

\* options of a command line that passes every input check
GoodOptions ==
    [company |-> <<"1">>, delimiter |-> "", mapping |-> "file", sensorUse |-> <<>>,
     deviceSetting |-> "ok"]

BulkHierarchy == <<ColS, ColB>>

\* names the server's locations carry: the names the import itself would give
RemoteNames(prefixColumnName) ==
    IF prefixColumnName
    THEN {formatLocationName([columnName |-> c, value |-> <<"a">>], TRUE) : c \in {ColS, ColB}}
    ELSE {<<"a">>, <<"a", "/", "a">>}

\* the server's listings: ids are 1..n, parent links form a forest
RemoteLists(prefixColumnName) ==
    UNION {
        {l \in [1..n -> [id : 1..n, name : RemoteNames(prefixColumnName), parent_id : 0..n]] :
            /\ \A k \in 1..n : l[k].id = k
            /\ ~PathsThrow(l)}
        : n \in 0..MaxRemote}

NoPrev == [dryRun |-> FALSE, fetchOk |-> FALSE, summary |-> EmptySummary,
           calls |-> <<>>, locationIdMap |-> EmptyMap]

\* the loop variables of interactiveMapping while the loop is not running
MapperIdle == colIdx = 0 /\ alreadyMapped = {} /\ snapshots = <<>>

\* device.properties as createDevice returns it: absent, the text of a JSON object
\* with the given entries, or a text JSON.parse rejects
NoProperties == [json |-> "absent", entries |-> EmptyMap]
DevicePropertyChoices ==
    {NoProperties,
     [json |-> "invalid", entries |-> EmptyMap],
     [json |-> "object", entries |-> ("j" :> <<"old">>)],
     [json |-> "object", entries |-> ("j" :> <<"old">>) @@ ("k" :> <<"old">>)]}

\* the variables of a bulkImport pass before the pass has begun
InitRun ==
    /\ existingLocations = EmptyMap
    /\ allLocations = <<>>
    /\ fetchOk = FALSE
    /\ locationPaths = <<>>
    /\ sortedPaths = <<>>
    /\ locIdx = 1
    /\ locationIdMap = EmptyMap
    /\ templateMap = EmptyMap
    /\ registry = {}
    /\ rowIdx = 1
    /\ summary = EmptySummary
    /\ calls = <<>>
    /\ outputFile = "ok"
    /\ exitCode = -1

\* the state in which bulkImport is called, for a CSV file of n rows
InitWith(n) ==
    /\ csvRows \in [1..n -> CsvRowSet]
    /\ csvFile = [exists |-> TRUE, lines |-> FileOf(csvRows)]
    /\ options = GoodOptions
    /\ parsedCSV = [headers |-> BulkHeaders, delimiter |-> ","]
    /\ mappings = BulkMappings
    /\ hierarchy = BulkHierarchy
    /\ validation = validateMapping(mappings, hierarchy)
    /\ locationDefaults = EmptyMap
    /\ networkUsed = FALSE
    /\ rows = transformRows(csvRows, mappings, hierarchy)
    /\ dryRun \in BOOLEAN
    /\ prefixLocationName \in BOOLEAN
    /\ deviceTypeId = <<>>
    /\ deviceSettings = ("k" :> <<"v">>)
    /\ remoteLocations \in RemoteLists(prefixLocationName)
    /\ remoteDevices = <<>>
    /\ run = 1
    /\ prev = NoPrev
    /\ pc = "start"
    /\ MapperIdle
    /\ deviceProperties = NoProperties
    /\ InitRun

Init == InitWith(NumRows)

-----------------------------------------------------------------------------
(* bulkImport *)

\* Step 0: a device type mismatch throws before any remote call; the command's
\* catch reports it and exits with code 1
CheckDeviceType ==
    /\ pc = "start"
    /\ IF deviceTypeId /= <<>> /\ ~validateDeviceTypeConsistency(rows, deviceTypeId)
       THEN /\ pc' = "thrown"
            /\ exitCode' = 1
       ELSE /\ pc' = "fetch"
            /\ UNCHANGED exitCode
    /\ UNCHANGED <<commandVars, mapperVars, deviceProperties, networkUsed, csvRows, mappings, hierarchy, rows, dryRun, prefixLocationName,
                   deviceTypeId, deviceSettings, remoteLocations, remoteDevices,
                   existingLocations, allLocations, fetchOk, locationPaths, sortedPaths,
                   locIdx, locationIdMap, templateMap, registry, rowIdx, summary, calls,
                   run, prev, outputFile>>

\* rows of a page of the listing, scaled down from the code's limit of 100
PageLimit == 1

\* rows of the listing the server returns for the given page, counted from 0
PageRows(list, page) ==
    SubSeq(list, page * PageLimit + 1,
           IF (page + 1) * PageLimit < Len(list) THEN (page + 1) * PageLimit ELSE Len(list))

\* number of requests the pagination loop makes: it stops once allLocations holds
\* response.count rows or a page came back short
RECURSIVE PageRequests(_, _)
PageRequests(list, page) ==
    LET fetched == IF (page + 1) * PageLimit < Len(list)
                   THEN (page + 1) * PageLimit ELSE Len(list)
    IN  IF fetched >= Len(list) \/ Len(PageRows(list, page)) < PageLimit THEN page + 1
        ELSE PageRequests(list, page + 1)

\* allLocations when the request numbered failAt (from 1) throws
RECURSIVE FetchedBefore(_, _)
FetchedBefore(list, failAt) ==
    IF failAt <= 1 THEN <<>>
    ELSE FetchedBefore(list, failAt - 1) \o PageRows(list, failAt - 2)

\* mutant of fetchExistingLocations: the first page is kept when the fetch fails
fetchExistingLocationsPartial(ok) ==
    IF ok /\ ~PathsThrow(remoteLocations)
    THEN buildPathsFromFlatLocations(remoteLocations)
    ELSE buildPathsFromFlatLocations(PageRows(remoteLocations, 0))

\* mutant of fetchExistingLocations: the listing is used although the fetch failed
fetchExistingLocationsUnchecked(ok) == buildPathsFromFlatLocations(remoteLocations)

\* fetchExistingLocations: any thrown error (a failed request, a call stack
\* overflow in resolvePath) is caught and leaves the empty map
fetchExistingLocations(ok) ==
    IF ok /\ ~PathsThrow(remoteLocations)
    THEN buildPathsFromFlatLocations(remoteLocations)
    ELSE EmptyMap

\* Steps 1 to 3; failAt is the request of the listing that throws, 0 when none does
FetchLocations ==
    /\ pc = "fetch"
    /\ \E failAt \in 0..PageRequests(remoteLocations, 0) :
        LET ok == failAt = 0
        IN  /\ fetchOk' = (ok /\ ~PathsThrow(remoteLocations))
            /\ allLocations' = IF ok THEN remoteLocations
                               ELSE FetchedBefore(remoteLocations, failAt)
            /\ existingLocations' = fetchExistingLocations(ok)
    /\ locationPaths' = buildLocationPaths(rows, prefixLocationName)
    /\ sortedPaths' = sortLocationsByDepth(locationPaths')
    /\ locIdx' = 1
    /\ locationIdMap' = EmptyMap
    /\ pc' = "locations"
    /\ networkUsed' = TRUE
    /\ UNCHANGED <<commandVars, mapperVars, deviceProperties, csvRows, mappings, hierarchy, rows, dryRun, prefixLocationName,
                   deviceTypeId, deviceSettings, remoteLocations, remoteDevices,
                   templateMap, registry, rowIdx, summary, calls, run, prev,
                   outputFile, exitCode>>

\* the loop variables of Step 4
InLocationLoop == pc = "locations" /\ locIdx <= Len(sortedPaths)
CurPath == sortedPaths[locIdx]
CurNode == NodeAt(locationPaths, CurPath)

\* existingLocations.has(path)
PathExists(path) == path \in DOMAIN existingLocations

\* locationIdMap.get(node.parentPath) || null, 0 standing for null
ParentId(node) ==
    IF node.parentPath \in DOMAIN locationIdMap /\ locationIdMap[node.parentPath] /= 0
    THEN locationIdMap[node.parentPath]
    ELSE 0

\* if (node.parentPath) { ...; if (!parentId) { failed; continue } }
ParentMissing(node) == node.parentPath /= <<>> /\ ParentId(node) = 0

\* mutant of LocationCallAllowed: the dry-run check of Step 4 left out
LocationCallAlways == TRUE

\* if (dryRun) { ...; continue } stands before the create call of Step 4
LocationCallAllowed == ~dryRun

LocationFrame ==
    UNCHANGED <<commandVars, mapperVars, deviceProperties, networkUsed, csvRows, mappings, hierarchy, rows, dryRun, prefixLocationName,
                deviceTypeId, deviceSettings, remoteDevices, pc, existingLocations,
                allLocations, fetchOk, locationPaths, sortedPaths, templateMap,
                registry, rowIdx, run, prev, outputFile, exitCode>>

MatchLocation ==
    /\ InLocationLoop
    /\ PathExists(CurPath)
    /\ LET existing == existingLocations[CurPath]
       IN  /\ locationIdMap' = Put(locationIdMap, CurPath, existing.id)
           /\ summary' = Record(summary, "locationsMatched",
                                Result(TRUE, 0, "location", "matched", CurNode.name,
                                       existing.id, ""))
    /\ locIdx' = locIdx + 1
    /\ UNCHANGED <<remoteLocations, calls>>
    /\ LocationFrame

ParentNotFound ==
    /\ InLocationLoop
    /\ ~PathExists(CurPath)
    /\ ParentMissing(CurNode)
    /\ summary' = Record(summary, "locationsFailed",
                         Result(FALSE, 0, "location", "failed", CurNode.name, 0, "parent"))
    /\ locIdx' = locIdx + 1
    /\ UNCHANGED <<remoteLocations, calls, locationIdMap>>
    /\ LocationFrame

DryRunLocation ==
    /\ InLocationLoop
    /\ ~PathExists(CurPath)
    /\ ~ParentMissing(CurNode)
    /\ dryRun
    /\ summary' = Record(summary, "locationsCreated",
                         Result(TRUE, 0, "location", "created", CurNode.name, 0, ""))
    /\ locationIdMap' = Put(locationIdMap, CurPath, DryRunId)
    /\ locIdx' = locIdx + 1
    /\ UNCHANGED <<remoteLocations, calls>>
    /\ LocationFrame

\* mutant of locationData: the CSV values of a node replace the defaults wholesale
locationDataWholesale(node, defaults) ==
    IF DOMAIN node.meta /= {} THEN node.meta ELSE defaults

\* { name: node.name, ...locationDefaults, ...node.meta }, the name apart
locationData(node, defaults) == node.meta @@ defaults

\* createLocation: if (locationData.<attribute>) payload.<attribute> = ...
LocationPayload(data) ==
    [a \in {a \in DOMAIN data \cap LocationAttrs : data[a] /= <<>>} |-> data[a]]

\* the create call of Step 4 as the server sees it
LocationCall(node, ok) ==
    [op |-> "createLocation", path |-> node.path, row |-> 0, name |-> node.name,
     parent_id |-> IF node.parentPath /= <<>> THEN ParentId(node) ELSE 0, ok |-> ok,
     body |-> LocationPayload(locationData(node, locationDefaults))]

CreateLocationOk ==
    /\ InLocationLoop
    /\ ~PathExists(CurPath)
    /\ ~ParentMissing(CurNode)
    /\ LocationCallAllowed
    /\ LET call   == LocationCall(CurNode, TRUE)
           newLoc == [id |-> Len(remoteLocations) + 1, name |-> call.name,
                      parent_id |-> call.parent_id]
       IN  /\ calls' = Append(calls, call)
           /\ remoteLocations' = Append(remoteLocations, newLoc)
           /\ locationIdMap' = Put(locationIdMap, CurPath, newLoc.id)
           /\ summary' = Record(summary, "locationsCreated",
                                Result(TRUE, 0, "location", "created", CurNode.name,
                                       newLoc.id, ""))
    /\ locIdx' = locIdx + 1
    /\ LocationFrame

CreateLocationFail ==
    /\ InLocationLoop
    /\ ~PathExists(CurPath)
    /\ ~ParentMissing(CurNode)
    /\ LocationCallAllowed
    /\ calls' = Append(calls, LocationCall(CurNode, FALSE))
    /\ summary' = Record(summary, "locationsFailed",
                         Result(FALSE, 0, "location", "failed", CurNode.name, 0, "api"))
    /\ locIdx' = locIdx + 1
    /\ UNCHANGED <<remoteLocations, locationIdMap>>
    /\ LocationFrame

\* Step 5, entered when the location loop has run out: each referenced template is
\* fetched once; a fetch that throws is swallowed and leaves the id unmapped
FetchTemplates ==
    /\ pc = "locations"
    /\ locIdx > Len(sortedPaths)
    /\ \E fetched \in SUBSET (TemplateIds(rows) \cap DOMAIN RemoteTemplates) :
        templateMap' = [id \in fetched |-> extractTemplateInfo(RemoteTemplates[id])]
    /\ pc' = "hardware"
    /\ UNCHANGED <<commandVars, mapperVars, deviceProperties, networkUsed, csvRows, mappings, hierarchy, rows, dryRun, prefixLocationName,
                   deviceTypeId, deviceSettings, remoteLocations, remoteDevices,
                   existingLocations, allLocations, fetchOk, locationPaths, sortedPaths,
                   locIdx, locationIdMap, registry, rowIdx, summary, calls, run, prev,
                   outputFile, exitCode>>

\* Step 6: validateHardwareIds returns the registry entries found (none when the
\* lookup throws or no row has a hardware id); bulkImport drops the returned map
ValidateHardwareIds ==
    /\ pc = "hardware"
    /\ \E found \in SUBSET HardwareIds(rows) : registry' = found
    /\ rowIdx' = 1
    /\ pc' = "devices"
    /\ UNCHANGED <<commandVars, mapperVars, deviceProperties, networkUsed, csvRows, mappings, hierarchy, rows, dryRun, prefixLocationName,
                   deviceTypeId, deviceSettings, remoteLocations, remoteDevices,
                   existingLocations, allLocations, fetchOk, locationPaths, sortedPaths,
                   locIdx, locationIdMap, templateMap, summary, calls, run, prev,
                   outputFile, exitCode>>

\* mutant of InDeviceLoop: the device loop open while locations are being resolved
InDeviceLoopEarly == pc \in {"locations", "devices"} /\ rowIdx <= Len(rows)

\* the loop variables of Step 7
InDeviceLoop == pc = "devices" /\ rowIdx <= Len(rows)
CurRow == rows[rowIdx]
HasDevice(row) == Get(row.device, "hardware_id") /= <<>>

\* locationIdMap.get(locationPath), 0 standing for undefined
LocationId(row) ==
    LET locationPath == getDeepestLocationPath(row, prefixLocationName)
    IN  IF locationPath /= <<>> /\ locationPath \in DOMAIN locationIdMap
        THEN locationIdMap[locationPath] ELSE 0

\* if (locationPath) { ...; if (!locationId && !dryRun) { failed; continue } }
LocationMissing(row) ==
    /\ getDeepestLocationPath(row, prefixLocationName) /= <<>>
    /\ LocationId(row) = 0
    /\ ~dryRun

\* if (dryRun) { ...; continue } stands before the create call of Step 7
DeviceCallAllowed == ~dryRun

\* mutant of DeviceWanted: the hardware-id check of Step 7 left out
DeviceWantedAlways(row) == TRUE

\* if (!row.device.hardware_id) continue, negated; the map returned by
\* validateHardwareIds is not consulted
DeviceWanted(row) == HasDevice(row)

DeviceFrame ==
    UNCHANGED <<commandVars, mapperVars, deviceProperties, networkUsed, csvRows, mappings, hierarchy, rows, dryRun, prefixLocationName,
                deviceTypeId, deviceSettings, remoteLocations, pc, existingLocations,
                allLocations, fetchOk, locationPaths, sortedPaths, locIdx, locationIdMap,
                templateMap, registry, run, prev, outputFile, exitCode>>

SkipRow ==
    /\ InDeviceLoop
    /\ ~DeviceWanted(CurRow)
    /\ rowIdx' = rowIdx + 1
    /\ UNCHANGED <<remoteDevices, summary, calls>>
    /\ DeviceFrame

DeviceLocationNotFound ==
    /\ InDeviceLoop
    /\ DeviceWanted(CurRow)
    /\ LocationMissing(CurRow)
    /\ summary' = Record(summary, "devicesFailed",
                         Result(FALSE, CurRow.rowNumber, "device", "failed",
                                DeviceName(CurRow), 0, "location"))
    /\ rowIdx' = rowIdx + 1
    /\ UNCHANGED <<remoteDevices, calls>>
    /\ DeviceFrame

DryRunDevice ==
    /\ InDeviceLoop
    /\ DeviceWanted(CurRow)
    /\ ~LocationMissing(CurRow)
    /\ dryRun
    /\ summary' = Record(summary, "devicesCreated",
                         Result(TRUE, CurRow.rowNumber, "device", "created",
                                DeviceName(CurRow), 0, ""))
    /\ rowIdx' = rowIdx + 1
    /\ UNCHANGED <<remoteDevices, calls>>
    /\ DeviceFrame

\* mutant of TemplateInfoFor: the template is read from the service whether or not
\* its fetch succeeded
TemplateInfoForUnfetched(row) ==
    LET id == Get(row.device, "device_type_id")
    IN  IF id \in DOMAIN RemoteTemplates
        THEN extractTemplateInfo(RemoteTemplates[id]) ELSE EmptyMap

\* row.device.device_type_id ? templateMap.get(row.device.device_type_id) : undefined
TemplateInfoFor(row) ==
    LET id == Get(row.device, "device_type_id")
    IN  IF id /= <<>> /\ id \in DOMAIN templateMap THEN templateMap[id] ELSE EmptyMap

TemplateAttrs == {"sensor_use", "sensor_type", "device_category"}

\* mutant of devicePayload: the template value wins over the row's own
devicePayloadTemplateFirst(device, templateInfo) ==
    [a \in TemplateAttrs |->
        IF Get(templateInfo, a) /= <<>> THEN Get(templateInfo, a) ELSE Get(device, a)]

\* createDevice: deviceData.<attribute> || templateInfo?.<attribute>
devicePayload(device, templateInfo) ==
    [a \in TemplateAttrs |->
        IF Get(device, a) /= <<>> THEN Get(device, a) ELSE Get(templateInfo, a)]

\* updateDeviceProperties: properties = {} unless existingProperties is given and
\* JSON.parse accepts it
ExistingProperties(existing) ==
    IF existing.json = "object" THEN existing.entries ELSE EmptyMap

\* mutant of mergedProperties: the supplied settings sent alone
mergedPropertiesReplaced(existing, newProperties) == newProperties

\* for (const [key, value] of Object.entries(newProperties)) properties[key] = value
mergedProperties(existing, newProperties) ==
    newProperties @@ ExistingProperties(existing)

\* the remote calls of Step 7 as the server sees them
DeviceCall(op, row, ok) ==
    [op |-> op, path |-> getDeepestLocationPath(row, prefixLocationName),
     row |-> row.rowNumber, name |-> Get(row.device, "hardware_id"),
     parent_id |-> LocationId(row), ok |-> ok,
     body |-> IF op = "createDevice" THEN devicePayload(row.device, TemplateInfoFor(row))
              ELSE mergedProperties(deviceProperties, deviceSettings)]

\* deviceSettings && Object.keys(deviceSettings).length > 0
HasSettings == DOMAIN deviceSettings /= {}

\* mutant of SettingsFailureResult: the failed follow-up reported as a failed device
SettingsFailureAsFailed(row, id) ==
    Result(FALSE, row.rowNumber, "device", "failed", DeviceName(row), 0, "settings")

\* the result pushed when updateDeviceProperties threw: created, with the device id
\* and the text "Device created but settings failed: ..."
SettingsFailureResult(row, id) ==
    Result(TRUE, row.rowNumber, "device", "created", DeviceName(row), id, "settings")

\* createDevice returned; the settings follow-up, when there is one, succeeded
CreateDeviceOk ==
    /\ InDeviceLoop
    /\ DeviceWanted(CurRow)
    /\ ~LocationMissing(CurRow)
    /\ DeviceCallAllowed
    /\ LET device == [id |-> Len(remoteDevices) + 1,
                      hardware_id |-> Get(CurRow.device, "hardware_id"),
                      location_id |-> LocationId(CurRow)]
       IN  /\ remoteDevices' = Append(remoteDevices, device)
           /\ calls' = calls \o <<DeviceCall("createDevice", CurRow, TRUE)>>
                         \o (IF HasSettings
                             THEN <<DeviceCall("updateDevice", CurRow, TRUE)>> ELSE <<>>)
           /\ summary' = Record(summary, "devicesCreated",
                                Result(TRUE, CurRow.rowNumber, "device", "created",
                                       DeviceName(CurRow), device.id, ""))
    /\ rowIdx' = rowIdx + 1
    /\ DeviceFrame

\* createDevice returned and updateDeviceProperties threw: a warning on the result
CreateDeviceSettingsFail ==
    /\ InDeviceLoop
    /\ DeviceWanted(CurRow)
    /\ ~LocationMissing(CurRow)
    /\ DeviceCallAllowed
    /\ HasSettings
    /\ LET device == [id |-> Len(remoteDevices) + 1,
                      hardware_id |-> Get(CurRow.device, "hardware_id"),
                      location_id |-> LocationId(CurRow)]
       IN  /\ remoteDevices' = Append(remoteDevices, device)
           /\ calls' = calls \o <<DeviceCall("createDevice", CurRow, TRUE),
                                  DeviceCall("updateDevice", CurRow, FALSE)>>
           /\ summary' = Record(summary, "devicesCreated",
                                SettingsFailureResult(CurRow, device.id))
    /\ rowIdx' = rowIdx + 1
    /\ DeviceFrame

CreateDeviceFail ==
    /\ InDeviceLoop
    /\ DeviceWanted(CurRow)
    /\ ~LocationMissing(CurRow)
    /\ DeviceCallAllowed
    /\ calls' = Append(calls, DeviceCall("createDevice", CurRow, FALSE))
    /\ summary' = Record(summary, "devicesFailed",
                         Result(FALSE, CurRow.rowNumber, "device", "failed",
                                DeviceName(CurRow), 0, "api"))
    /\ rowIdx' = rowIdx + 1
    /\ UNCHANGED remoteDevices
    /\ DeviceFrame

-----------------------------------------------------------------------------
(* The import command after bulkImport returned *)

\* mutant of exitCodeFor: the device failures left out of the test
exitCodeLocationsOnly(s, output) ==
    IF output = "failed" THEN 1
    ELSE IF s.locationsFailed > 0 THEN 1
    ELSE 0

\* writeFileSync(options.output) throwing lands in the catch, which exits with 1;
\* otherwise process.exit(1) on any failure, and a normal end (code 0) without
exitCodeFor(s, output) ==
    IF output = "failed" THEN 1
    ELSE IF s.locationsFailed > 0 \/ s.devicesFailed > 0 THEN 1
    ELSE 0

\* output "ok": no --output given or the results file written; "failed": writing
\* the results file threw
FinishCommand ==
    /\ pc = "devices"
    /\ rowIdx > Len(rows)
    /\ \E output \in {"ok", "failed"} :
        /\ outputFile' = output
        /\ exitCode' = exitCodeFor(summary, output)
    /\ pc' = "done"
    /\ UNCHANGED <<commandVars, mapperVars, deviceProperties, networkUsed, csvRows, mappings, hierarchy, rows, dryRun, prefixLocationName,
                   deviceTypeId, deviceSettings, remoteLocations, remoteDevices,
                   existingLocations, allLocations, fetchOk, locationPaths, sortedPaths,
                   locIdx, locationIdMap, templateMap, registry, rowIdx, summary, calls,
                   run, prev>>

BulkImportStep ==
    \/ CheckDeviceType
    \/ FetchLocations
    \/ MatchLocation
    \/ ParentNotFound
    \/ DryRunLocation
    \/ CreateLocationOk
    \/ CreateLocationFail
    \/ FetchTemplates
    \/ ValidateHardwareIds
    \/ SkipRow
    \/ DeviceLocationNotFound
    \/ DryRunDevice
    \/ CreateDeviceOk
    \/ CreateDeviceSettingsFail
    \/ CreateDeviceFail
    \/ FinishCommand

Next == BulkImportStep

Spec == Init /\ [][Next]_vars

-----------------------------------------------------------------------------
(* The command run a second time on the same CSV file, mapping and options *)

\* the operator runs the import again, against the server as the first pass left
\* it: the real import after a dry run, or either mode after a real import that
\* recorded no failure
Rerun ==
    /\ pc = "done"
    /\ run = 1
    /\ dryRun \/ \A k \in 1..Len(summary.results) : summary.results[k].action /= "failed"
    /\ run' = 2
    /\ prev' = [dryRun |-> dryRun, fetchOk |-> fetchOk, summary |-> summary,
                calls |-> calls, locationIdMap |-> locationIdMap]
    /\ dryRun' \in (IF dryRun THEN {FALSE} ELSE BOOLEAN)
    /\ pc' = "start"
    /\ existingLocations' = EmptyMap
    /\ allLocations' = <<>>
    /\ fetchOk' = FALSE
    /\ locationPaths' = <<>>
    /\ sortedPaths' = <<>>
    /\ locIdx' = 1
    /\ locationIdMap' = EmptyMap
    /\ templateMap' = EmptyMap
    /\ registry' = {}
    /\ rowIdx' = 1
    /\ summary' = EmptySummary
    /\ calls' = <<>>
    /\ outputFile' = "ok"
    /\ exitCode' = -1
    /\ networkUsed' = FALSE
    /\ UNCHANGED <<commandVars, mapperVars, deviceProperties, csvRows, mappings, hierarchy, rows, prefixLocationName, deviceTypeId,
                   deviceSettings, remoteLocations, remoteDevices>>

NextRerun == BulkImportStep \/ Rerun

\* two passes over a file of NumRowsRerun rows
InitRerun == InitWith(NumRowsRerun)

SpecRerun == InitRerun /\ [][NextRerun]_vars

\* the server's listings whatever their parent links, a location that is its own
\* ancestor included
AnyRemoteLists ==
    UNION {
        {l \in [1..n -> [id : 1..n, name : RemoteNames(FALSE), parent_id : 0..n]] :
            \A k \in 1..n : l[k].id = k}
        : n \in 0..MaxRemote}

\* bulkImport called on one row against any listing
InitCycle ==
    /\ csvRows \in [1..NumRowsRerun -> CsvRowSet]
    /\ csvFile = [exists |-> TRUE, lines |-> FileOf(csvRows)]
    /\ options = GoodOptions
    /\ parsedCSV = [headers |-> BulkHeaders, delimiter |-> ","]
    /\ mappings = BulkMappings
    /\ hierarchy = BulkHierarchy
    /\ validation = validateMapping(mappings, hierarchy)
    /\ locationDefaults = EmptyMap
    /\ networkUsed = FALSE
    /\ rows = transformRows(csvRows, mappings, hierarchy)
    /\ dryRun \in BOOLEAN
    /\ prefixLocationName = FALSE
    /\ deviceTypeId = <<>>
    /\ deviceSettings = ("k" :> <<"v">>)
    /\ remoteLocations \in AnyRemoteLists
    /\ remoteDevices = <<>>
    /\ run = 1
    /\ prev = NoPrev
    /\ pc = "start"
    /\ MapperIdle
    /\ deviceProperties = NoProperties
    /\ InitRun

SpecCycle == InitCycle /\ [][Next]_vars

-----------------------------------------------------------------------------
(* The import command up to its call of bulkImport *)

\* what the operator supplies and the command only reads
inputVars == <<csvFile, options, locationDefaults, mappings, hierarchy, dryRun,
               prefixLocationName, deviceTypeId>>

\* what only bulkImport and the end of the command write
importVars == <<remoteLocations, remoteDevices, existingLocations, allLocations, fetchOk,
                locationPaths, sortedPaths, locIdx, locationIdMap, templateMap, registry,
                rowIdx, summary, calls, run, prev, outputFile>>

\* error(...); process.exit(code)
Exit(code) == pc' = "exited" /\ exitCode' = code

\* if (!existsSync(csvFile)) { error; process.exit(1) }
CheckCsvFile ==
    /\ pc = "exists"
    /\ IF csvFile.exists THEN pc' = "parse" /\ UNCHANGED exitCode ELSE Exit(1)
    /\ UNCHANGED <<inputVars, mapperVars, deviceProperties, importVars, parsedCSV, csvRows, validation, rows,
                   deviceSettings, networkUsed>>

\* parsedCSV = parseCSV(csvFile, options.delimiter); a throw exits with code 1
ParseCsv ==
    /\ pc = "parse"
    /\ LET parsed == parseCSV(csvFile.lines, options.delimiter)
       IN  IF parsed.thrown
           THEN Exit(1) /\ UNCHANGED <<parsedCSV, csvRows>>
           ELSE /\ parsedCSV' = [headers |-> parsed.headers, delimiter |-> parsed.delimiter]
                /\ csvRows' = parsed.rows
                /\ pc' = "mapping"
                /\ UNCHANGED exitCode
    /\ UNCHANGED <<inputVars, mapperVars, deviceProperties, importVars, validation, rows, deviceSettings, networkUsed>>

\* loadMapping(options.mapping), which throws on an unreadable file, or
\* interactiveMapping(parsedCSV.headers)
GetMapping ==
    /\ pc = "mapping"
    /\ IF options.mapping = "unreadable" THEN Exit(1) ELSE pc' = "validate" /\ UNCHANGED exitCode
    /\ UNCHANGED <<inputVars, mapperVars, deviceProperties, importVars, parsedCSV, csvRows, validation, rows,
                   deviceSettings, networkUsed>>

\* validation = validateMapping(mappings, hierarchy); if (!validation.valid) exit(1)
ValidateMapping ==
    /\ pc = "validate"
    /\ validation' = validateMapping(mappings, hierarchy)
    /\ IF validation'.valid THEN pc' = "company" /\ UNCHANGED exitCode ELSE Exit(1)
    /\ UNCHANGED <<inputVars, mapperVars, deviceProperties, importVars, parsedCSV, csvRows, rows, deviceSettings,
                   networkUsed>>

\* mutant of CompanyMissing: the --company check left out
CompanyOptional(opts) == FALSE

\* !options.company
CompanyMissing(opts) == opts.company = <<>>

CheckCompany ==
    /\ pc = "company"
    /\ IF CompanyMissing(options) THEN Exit(1) ELSE pc' = "transform" /\ UNCHANGED exitCode
    /\ UNCHANGED <<inputVars, mapperVars, deviceProperties, importVars, parsedCSV, csvRows, validation, rows,
                   deviceSettings, networkUsed>>

\* the CLI flags fill in a device row that has no value of its own
ApplyDeviceDefaults(rs, typeId, sensorUse) ==
    [i \in 1..Len(rs) |->
        LET device == rs[i].device
            typed  == IF typeId /= <<>> /\ Get(device, "device_type_id") = <<>>
                      THEN Put(device, "device_type_id", typeId) ELSE device
            used   == IF sensorUse /= <<>> /\ Get(typed, "sensor_use") = <<>>
                      THEN Put(typed, "sensor_use", sensorUse) ELSE typed
        IN  IF Get(device, "hardware_id") = <<>> THEN rs[i]
            ELSE [rs[i] EXCEPT !.device = used]]

\* transformedRows = transformRows(parsedCSV.rows, mappings, hierarchy), then the
\* device defaults; saving the mapping and the location defaults write no state here
TransformRows ==
    /\ pc = "transform"
    /\ rows' = ApplyDeviceDefaults(transformRows(csvRows, mappings, hierarchy),
                                   deviceTypeId, options.sensorUse)
    /\ pc' = "deviceType"
    /\ UNCHANGED <<inputVars, mapperVars, deviceProperties, importVars, parsedCSV, csvRows, validation, deviceSettings,
                   networkUsed, exitCode>>

\* with --device-type-id: a malformed --device-setting exits, then the template
\* is fetched over the network; deviceSettings come from its form fields
FetchDeviceType ==
    /\ pc = "deviceType"
    /\ IF deviceTypeId = <<>>
       THEN /\ pc' = "confirm"
            /\ UNCHANGED <<deviceSettings, networkUsed, exitCode>>
       ELSE IF options.deviceSetting = "invalid"
       THEN Exit(1) /\ UNCHANGED <<deviceSettings, networkUsed>>
       ELSE /\ networkUsed' = TRUE
            /\ \/ Exit(1) /\ UNCHANGED deviceSettings
               \/ /\ deviceSettings' \in {EmptyMap, ("k" :> <<"v">>)}
                  /\ pc' = "confirm"
                  /\ UNCHANGED exitCode
    /\ UNCHANGED <<inputVars, mapperVars, deviceProperties, importVars, parsedCSV, csvRows, validation, rows>>

\* if (!options.dryRun) { proceed = await confirm(...); if (!proceed) exit(0) }
Confirm ==
    /\ pc = "confirm"
    /\ \/ pc' = "start" /\ UNCHANGED exitCode
       \/ ~dryRun /\ Exit(0)
    /\ UNCHANGED <<inputVars, mapperVars, deviceProperties, importVars, parsedCSV, csvRows, validation, rows,
                   deviceSettings, networkUsed>>

CommandStep ==
    \/ CheckCsvFile
    \/ ParseCsv
    \/ GetMapping
    \/ ValidateMapping
    \/ CheckCompany
    \/ TransformRows
    \/ FetchDeviceType
    \/ Confirm

\* the command from its start to the first request of bulkImport
NextCommand == CommandStep \/ CheckDeviceType \/ FetchLocations

-----------------------------------------------------------------------------
(* interactiveMapping: the loop that GetMapping takes in one step *)

\* most columns of a file mapped interactively
MaxColumns == 3

\* the value null of "(skip this column)" and the value of "undo previous mapping"
NullChoice == ""
UndoChoice == "__undo__"

\* TARGET_FIELDS, cut down to two location fields and two device fields
MenuFields ==
    <<HierarchyTarget, "location.city", "device.hardware_id", "device.metadata">>

\* value: disabled ? `__disabled_${field.value}__` : field.value; the hierarchy field
\* is never disabled
MenuValue(already, field) ==
    IF field /= HierarchyTarget /\ field \in already
    THEN "__disabled_" \o field \o "__" ELSE field

\* buildMappingChoices: the values of the menu entries, in menu order
buildMappingChoices(already) ==
    <<"__separator_loc__", MenuValue(already, MenuFields[1]),
      MenuValue(already, MenuFields[2]), "__separator_dev__",
      MenuValue(already, MenuFields[3]), MenuValue(already, MenuFields[4]),
      NullChoice, UndoChoice>>

\* c.value?.startsWith('__separator_') || c.value?.startsWith('__disabled_')
IsMarker(value) ==
    \/ value \in {"__separator_loc__", "__separator_dev__"}
    \/ \E k \in 1..Len(MenuFields) : value = "__disabled_" \o MenuFields[k] \o "__"

\* the entries the first prompt of column i offers
filteredChoices(already, i) ==
    LET choices == buildMappingChoices(already)
    IN  {choices[k] : k \in {k \in 1..Len(choices) :
                                /\ ~IsMarker(choices[k])
                                /\ ~(choices[k] = UndoChoice /\ i = 0)}}

\* the entries the prompt for a second target offers
extraChoices(already) ==
    LET choices == buildMappingChoices(already)
    IN  {choices[k] : k \in {k \in 1..Len(choices) : ~IsMarker(choices[k])}}

\* mappings[column], the empty sequence when the key is absent or holds null
MappingOf(maps, column) ==
    IF \E k \in 1..Len(maps) : maps[k].column = column
    THEN maps[CHOOSE k \in 1..Len(maps) : maps[k].column = column].targets
    ELSE <<>>

\* mappings[column] = targets: a key already present keeps its place
SetMapping(maps, column, targets) ==
    IF \E k \in 1..Len(maps) : maps[k].column = column
    THEN [k \in 1..Len(maps) |->
            IF maps[k].column = column THEN [column |-> column, targets |-> targets]
            ELSE maps[k]]
    ELSE Append(maps, [column |-> column, targets |-> targets])

\* delete mappings[column]
DeleteMapping(maps, column) == SelectSeq(maps, LAMBDA m : m.column /= column)

InMappingLoop == pc = "interactive" /\ colIdx < Len(parsedCSV.headers)
CurColumn == parsedCSV.headers[colIdx + 1]

\* what is left alone while the operator maps the columns
MapperFrame ==
    UNCHANGED <<commandVars, networkUsed, csvRows, rows, dryRun, prefixLocationName,
                deviceTypeId, deviceSettings, importVars, deviceProperties>>

\* i++ at the end of an iteration, with the state the column found kept for undo
NextColumn ==
    /\ colIdx' = colIdx + 1
    /\ snapshots' = Append(snapshots, [mappings |-> mappings, hierarchy |-> hierarchy,
                                       alreadyMapped |-> alreadyMapped])
    /\ UNCHANGED <<pc, exitCode>>
    /\ MapperFrame

\* the skip entry chosen, or the key s pressed: answer = null
MapSkip ==
    /\ InMappingLoop
    /\ NullChoice \in filteredChoices(alreadyMapped, colIdx)
    /\ mappings' = SetMapping(mappings, CurColumn, <<>>)
    /\ UNCHANGED <<hierarchy, alreadyMapped>>
    /\ NextColumn

\* hierarchy.columns is explored up to one column more than the file has
MapHierarchy ==
    /\ InMappingLoop
    /\ HierarchyTarget \in filteredChoices(alreadyMapped, colIdx)
    /\ Len(hierarchy) <= MaxColumns
    /\ mappings' = SetMapping(mappings, CurColumn, <<HierarchyTarget>>)
    /\ hierarchy' = Append(hierarchy, CurColumn)
    /\ UNCHANGED alreadyMapped
    /\ NextColumn

\* device.metadata chosen and a key name entered
MapMetadata ==
    /\ InMappingLoop
    /\ "device.metadata" \in filteredChoices(alreadyMapped, colIdx)
    /\ \E key \in MetadataKeys :
        mappings' = SetMapping(mappings, CurColumn, <<"device.metadata." \o key>>)
    /\ UNCHANGED <<hierarchy, alreadyMapped>>
    /\ NextColumn

\* any other field chosen, and no second target: the confirm declined, or the skip
\* entry chosen at the second prompt
MapField ==
    /\ InMappingLoop
    /\ \E answer \in filteredChoices(alreadyMapped, colIdx)
                        \ {NullChoice, UndoChoice, HierarchyTarget, "device.metadata"} :
        /\ mappings' = SetMapping(mappings, CurColumn, <<answer>>)
        /\ alreadyMapped' = alreadyMapped \cup {answer}
    /\ UNCHANGED hierarchy
    /\ NextColumn

\* any other field chosen and a second target chosen at the second prompt
MapTwoTargets ==
    /\ InMappingLoop
    /\ \E answer \in filteredChoices(alreadyMapped, colIdx)
                        \ {NullChoice, UndoChoice, HierarchyTarget, "device.metadata"} :
        \E extraAnswer \in extraChoices(alreadyMapped \cup {answer}) \ {NullChoice} :
            /\ mappings' = SetMapping(mappings, CurColumn, <<answer, extraAnswer>>)
            /\ alreadyMapped' = alreadyMapped \cup {answer, extraAnswer}
    /\ UNCHANGED hierarchy
    /\ NextColumn

\* answer === '__undo__': the previous column's mapping cleared, i--
UndoMapping ==
    /\ InMappingLoop
    /\ UndoChoice \in filteredChoices(alreadyMapped, colIdx)
    /\ LET prevColumn  == parsedCSV.headers[colIdx]
           prevMapping == MappingOf(mappings, prevColumn)
       IN  /\ alreadyMapped' =
                  alreadyMapped \ ({prevMapping[k] : k \in 1..Len(prevMapping)}
                                       \ {HierarchyTarget})
           /\ hierarchy' = IF prevMapping = <<HierarchyTarget>> /\ hierarchy /= <<>>
                           THEN SubSeq(hierarchy, 1, Len(hierarchy) - 1) ELSE hierarchy
           /\ mappings' = DeleteMapping(mappings, prevColumn)
    /\ colIdx' = colIdx - 1
    /\ snapshots' = SubSeq(snapshots, 1, colIdx - 1)
    /\ UNCHANGED <<pc, exitCode>>
    /\ MapperFrame

\* Esc or Ctrl+C at a prompt: the rejection leaves interactiveMapping and the command
CancelMapping ==
    /\ InMappingLoop
    /\ Exit(1)
    /\ UNCHANGED <<mappings, hierarchy, mapperVars>>
    /\ MapperFrame

\* return { mappings, hierarchy }
ReturnMapping ==
    /\ pc = "interactive"
    /\ colIdx >= Len(parsedCSV.headers)
    /\ pc' = "validate"
    /\ UNCHANGED <<mappings, hierarchy, mapperVars, exitCode>>
    /\ MapperFrame

NextMapping ==
    \/ MapSkip
    \/ MapHierarchy
    \/ MapMetadata
    \/ MapField
    \/ MapTwoTargets
    \/ UndoMapping
    \/ CancelMapping
    \/ ReturnMapping

\* validation before validateMapping has been called
NoValidation == [valid |-> FALSE, errors |-> <<>>]

\* the state in which the command starts: nothing parsed, validated or fetched
CommandStart ==
    /\ parsedCSV = [headers |-> <<>>, delimiter |-> ""]
    /\ validation = NoValidation
    /\ csvRows = <<>>
    /\ rows = <<>>
    /\ deviceSettings = EmptyMap
    /\ locationDefaults = EmptyMap
    /\ prefixLocationName = TRUE
    /\ networkUsed = FALSE
    /\ remoteLocations = <<>>
    /\ remoteDevices = <<>>
    /\ run = 1
    /\ prev = NoPrev
    /\ pc = "exists"
    /\ MapperIdle
    /\ deviceProperties = NoProperties
    /\ InitRun

\* longest header line and longest file explored by the parsing specification
MaxHeaderLen == 4
MaxFileLines == 4

\* header lines over the four candidate delimiters and a letter
HeaderChars == {",", ";", "\t", "|", "a"}
HeaderLines == UNION {[1..n -> HeaderChars] : n \in 0..MaxHeaderLen}

\* lines of a data file: empty, blank, the header, a device row, a row with a quoted cell
FileLines ==
    {<<>>, <<" ">>, JoinCells(BulkHeaders),
     JoinCells(<<<<"a">>, <<"a">>, <<"h">>, <<"y">>>>),
     <<"\"", "a", ",", "a", "\"", ",", ",", ",", "y">>}

ParseFiles ==
    {<<h>> : h \in HeaderLines} \cup UNION {[1..n -> FileLines] : n \in 0..MaxFileLines}

\* every file content, under a mapping and options that pass the input checks
InitParse ==
    /\ csvFile \in [exists : {TRUE}, lines : ParseFiles]
    /\ options \in {[GoodOptions EXCEPT !.delimiter = d] : d \in {"", ";"}}
    /\ mappings = BulkMappings
    /\ hierarchy = BulkHierarchy
    /\ dryRun \in BOOLEAN
    /\ deviceTypeId = <<>>
    /\ CommandStart

SpecParse == InitParse /\ [][NextCommand]_vars

\* targets a column of the mapping may carry: none, one or two
TargetChoices ==
    {<<>>, <<HierarchyTarget>>, <<"device.hardware_id">>, <<"device.sensor_type">>,
     <<"device.device_type_id">>, <<"device.name">>, <<"device.metadata.k1">>,
     <<"location.city">>, <<"device.hardware_id", "device.sensor_type">>}

MappingChoices ==
    {<<[column |-> ColS, targets |-> <<HierarchyTarget>>],
       [column |-> ColB, targets |-> <<HierarchyTarget>>],
       [column |-> ColH, targets |-> th],
       [column |-> ColT, targets |-> tt]>> : th \in TargetChoices, tt \in TargetChoices}

HierarchyChoices == {<<>>, <<ColS>>, <<ColS, ColB>>}

\* a missing file, a file of one blank line, a file of one device row
CommandFiles ==
    {[exists |-> FALSE, lines |-> <<>>],
     [exists |-> TRUE, lines |-> <<<<" ">>>>],
     [exists |-> TRUE,
      lines |-> FileOf(<<(ColS :> <<"a">>) @@ (ColB :> <<"a">>) @@ (ColH :> <<"h">>)
                          @@ (ColT :> <<"y">>)>>)]}

\* every mapping and every combination of the checked options, over three files
InitCommand ==
    /\ csvFile \in CommandFiles
    /\ options \in [company : {<<>>, <<"1">>}, delimiter : {""},
                    mapping : {"none", "file", "unreadable"}, sensorUse : {<<>>},
                    deviceSetting : {"ok", "invalid"}]
    /\ mappings \in MappingChoices
    /\ hierarchy \in HierarchyChoices
    /\ dryRun \in BOOLEAN
    /\ deviceTypeId \in {<<>>, <<"t">>}
    /\ CommandStart

SpecCommand == InitCommand /\ [][NextCommand]_vars

\* the header lists of up to MaxColumns columns, repeated names included
HeaderChoices == UNION {[1..n -> {ColS, ColB, ColH}] : n \in 1..MaxColumns}

\* interactiveMapping called on the headers of a parsed file of one row
InitMapping ==
    /\ \E headers \in HeaderChoices :
        /\ csvFile = [exists |-> TRUE,
                      lines |-> <<JoinCells(headers),
                                  JoinCells([k \in 1..Len(headers) |-> <<"a">>])>>]
        /\ parsedCSV = [headers |-> headers, delimiter |-> ","]
    /\ csvRows = parseCSV(csvFile.lines, "").rows
    /\ options = [GoodOptions EXCEPT !.mapping = "none"]
    /\ mappings = <<>>
    /\ hierarchy = <<>>
    /\ validation = NoValidation
    /\ rows = <<>>
    /\ dryRun = FALSE
    /\ deviceTypeId = <<>>
    /\ deviceSettings = EmptyMap
    /\ locationDefaults = EmptyMap
    /\ prefixLocationName = TRUE
    /\ networkUsed = FALSE
    /\ remoteLocations = <<>>
    /\ remoteDevices = <<>>
    /\ run = 1
    /\ prev = NoPrev
    /\ pc = "interactive"
    /\ MapperIdle
    /\ deviceProperties = NoProperties
    /\ InitRun

SpecMapping == InitMapping /\ [][NextMapping]_vars

\* a hierarchy of three levels: site, building, floor
ColF == <<"F">>
TransformHeaders == <<ColS, ColB, ColF, ColH, ColT>>
TransformHierarchy == <<ColS, ColB, ColF>>
TransformMappings ==
    <<[column |-> ColS, targets |-> <<HierarchyTarget>>],
      [column |-> ColB, targets |-> <<HierarchyTarget>>],
      [column |-> ColF, targets |-> <<HierarchyTarget>>],
      [column |-> ColH, targets |-> <<"device.hardware_id">>],
      [column |-> ColT, targets |-> <<"device.sensor_type">>]>>

\* cells of the level columns: empty, blank, two names
LevelCells == {<<>>, <<" ">>, <<"a">>, <<"b">>}

TransformRowSet ==
    {(ColS :> s) @@ (ColB :> b) @@ (ColF :> f) @@ (ColH :> h) @@ (ColT :> <<"y">>) :
        s \in LevelCells, b \in LevelCells, f \in LevelCells, h \in HwCells}

\* every one-row file over the three levels, under a mapping and options that pass
\* the input checks
InitTransform ==
    /\ csvFile \in {[exists |-> TRUE, lines |-> FileWith(TransformHeaders, <<r>>)] :
                        r \in TransformRowSet}
    /\ options = GoodOptions
    /\ mappings = TransformMappings
    /\ hierarchy = TransformHierarchy
    /\ dryRun \in BOOLEAN
    /\ deviceTypeId = <<>>
    /\ CommandStart

SpecTransform == InitTransform /\ [][NextCommand]_vars

\* columns carrying location attributes and device attributes
ColC == <<"C">>
ColZ == <<"Z">>
ColD == <<"D">>
ColU == <<"U">>
PayloadHeaders == <<ColS, ColB, ColC, ColZ, ColH, ColD, ColU, ColT>>
PayloadMappings ==
    <<[column |-> ColS, targets |-> <<HierarchyTarget>>],
      [column |-> ColB, targets |-> <<HierarchyTarget>>],
      [column |-> ColC, targets |-> <<"location.city">>],
      [column |-> ColZ, targets |-> <<"location.state">>],
      [column |-> ColH, targets |-> <<"device.hardware_id">>],
      [column |-> ColD, targets |-> <<"device.device_type_id">>],
      [column |-> ColU, targets |-> <<"device.sensor_use">>],
      [column |-> ColT, targets |-> <<"device.sensor_type">>]>>

\* a site with or without a building, each attribute given or not
PayloadRowSet ==
    {(ColS :> <<"a">>) @@ (ColB :> b) @@ (ColC :> c) @@ (ColZ :> z) @@ (ColH :> h)
        @@ (ColD :> d) @@ (ColU :> u) @@ (ColT :> t) :
        b \in {<<>>, <<"a">>}, c \in {<<>>, <<"x">>}, z \in {<<>>, <<"x">>},
        h \in HwCells, d \in {<<>>, <<"t">>}, u \in {<<>>, <<"r">>}, t \in {<<>>, <<"r">>}}

\* bulkImport called on one row carrying attributes, with location defaults
InitPayload ==
    /\ csvRows \in [1..1 -> PayloadRowSet]
    /\ csvFile = [exists |-> TRUE, lines |-> FileWith(PayloadHeaders, csvRows)]
    /\ options = GoodOptions
    /\ parsedCSV = [headers |-> PayloadHeaders, delimiter |-> ","]
    /\ mappings = PayloadMappings
    /\ hierarchy = BulkHierarchy
    /\ validation = validateMapping(mappings, hierarchy)
    /\ locationDefaults \in [{"city", "state"} -> {<<>>, <<"d">>}]
    /\ networkUsed = FALSE
    /\ rows = transformRows(csvRows, mappings, hierarchy)
    /\ dryRun \in BOOLEAN
    /\ prefixLocationName = FALSE
    /\ deviceTypeId = <<>>
    /\ deviceSettings = ("k" :> <<"v">>)
    /\ remoteLocations \in {<<>>, <<[id |-> 1, name |-> <<"a">>, parent_id |-> 0]>>}
    /\ remoteDevices = <<>>
    /\ run = 1
    /\ prev = NoPrev
    /\ pc = "start"
    /\ MapperIdle
    /\ deviceProperties \in DevicePropertyChoices
    /\ InitRun

SpecPayload == InitPayload /\ [][Next]_vars

\* rows with a site, with or without a building, a city and a hardware id
MetaRowSet ==
    {r \in PayloadRowSet :
        r[ColZ] = <<>> /\ r[ColD] = <<>> /\ r[ColU] = <<>> /\ r[ColT] = <<"r">>}

\* bulkImport called on two rows, in either order, that share the site
InitMeta ==
    /\ csvRows \in [1..2 -> MetaRowSet]
    /\ csvFile = [exists |-> TRUE, lines |-> FileWith(PayloadHeaders, csvRows)]
    /\ options = GoodOptions
    /\ parsedCSV = [headers |-> PayloadHeaders, delimiter |-> ","]
    /\ mappings = PayloadMappings
    /\ hierarchy = BulkHierarchy
    /\ validation = validateMapping(mappings, hierarchy)
    /\ locationDefaults = EmptyMap
    /\ networkUsed = FALSE
    /\ rows = transformRows(csvRows, mappings, hierarchy)
    /\ dryRun \in BOOLEAN
    /\ prefixLocationName = FALSE
    /\ deviceTypeId = <<>>
    /\ deviceSettings = ("k" :> <<"v">>)
    /\ remoteLocations \in {<<>>, <<[id |-> 1, name |-> <<"a">>, parent_id |-> 0]>>}
    /\ remoteDevices = <<>>
    /\ run = 1
    /\ prev = NoPrev
    /\ pc = "start"
    /\ MapperIdle
    /\ deviceProperties = NoProperties
    /\ InitRun

SpecMeta == InitMeta /\ [][Next]_vars

-----------------------------------------------------------------------------
(* Vocabulary of the properties *)

\* the location results recorded so far stand at positions 1..locIdx-1 of the
\* result list, the i-th for sortedPaths[i]
Resolved == 1..(IF pc = "start" \/ pc = "fetch" THEN 0 ELSE locIdx - 1)
ResultOf(i) == summary.results[i]
NodeOf(i) == NodeAt(locationPaths, sortedPaths[i])

CallsFor(op) == {k \in 1..Len(calls) : calls[k].op = op}

FailedResults == {k \in 1..Len(summary.results) : summary.results[k].action = "failed"}

\* the rendered level names of a row down to level k, and the path they join to
LevelNames(row, k) ==
    [j \in 1..k |-> formatLocationName(row.locationHierarchy[j], prefixLocationName)]
PathAt(row, k) ==
    DeepestFrom(<<>>, SubSeq(row.locationHierarchy, 1, k), 1, prefixLocationName)

\* every path the rows give rise to
RowPaths ==
    UNION {{PathAt(rows[r], k) : k \in 1..Len(rows[r].locationHierarchy)} : r \in 1..Len(rows)}

\* the names of a local node from its root ancestor down to itself
RECURSIVE LocalChain(_)
LocalChain(node) ==
    IF node.parentPath = <<>> THEN <<node.name>>
    ELSE Append(LocalChain(NodeAt(locationPaths, node.parentPath)), node.name)

\* the names of a listed remote location from its root ancestor down to itself
RECURSIVE RemoteChain(_, _, _)
RemoteChain(loc, locations, fuel) ==
    IF loc.parent_id /= 0 /\ HasId(locations, loc.parent_id) /\ fuel > 0
    THEN Append(RemoteChain(LocationById(locations, loc.parent_id), locations, fuel - 1),
                loc.name)
    ELSE <<loc.name>>

-----------------------------------------------------------------------------
(* Properties *)

\* C1: every node resolved so far that has a parent path was resolved strictly
\* after that parent path, which has itself a matched, created or failed result.
C1_ParentResolvedFirst ==
    \A i \in Resolved :
        NodeOf(i).parentPath /= <<>> =>
            \E j \in 1..(i - 1) :
                /\ sortedPaths[j] = NodeOf(i).parentPath
                /\ ResultOf(j).type = "location"
                /\ ResultOf(j).action \in {"matched", "created", "failed"}

\* a child whose listing-order position differs from its resolution position has
\* been resolved, after its parent, with prefixed names
C1_Witness ==
    /\ prefixLocationName
    /\ \E i \in Resolved :
        /\ NodeOf(i).parentPath /= <<>>
        /\ locationPaths[i].path /= sortedPaths[i]

\* C2 (as claimed), for a pass whose listing of the remote locations succeeded: a
\* node is matched exactly when some listed remote location has the node's chain
\* of names, and the matched id is the id of such a location.
C2_MatchedIffSameChain ==
    fetchOk =>
        \A i \in Resolved :
            LET same == {k \in 1..Len(allLocations) :
                            RemoteChain(allLocations[k], allLocations, Len(allLocations))
                                = LocalChain(NodeOf(i))}
            IN  /\ (ResultOf(i).action = "matched") <=> (same /= {})
                /\ ResultOf(i).action = "matched" =>
                       \E k \in same : allLocations[k].id = ResultOf(i).id

\* C3 (as claimed): two rows share the node of level k exactly when their
\* (columnName, value) pairs down to level k are equal.
C3_SameNodeIffSameLevels ==
    pc \notin {"start", "fetch"} =>
        \A r1, r2 \in 1..Len(rows) :
            \A k \in 1..Len(rows[r1].locationHierarchy) :
                k <= Len(rows[r2].locationHierarchy) =>
                    ((NodeAt(locationPaths, PathAt(rows[r1], k))
                        = NodeAt(locationPaths, PathAt(rows[r2], k)))
                     <=> (SubSeq(rows[r1].locationHierarchy, 1, k)
                            = SubSeq(rows[r2].locationHierarchy, 1, k)))

\* C4 (as claimed): a resolved node whose parent path has no remote id is failed
\* with the parent-not-found error and no create call was issued for it.
C4_OrphanFails ==
    \A i \in Resolved :
        (NodeOf(i).parentPath /= <<>> /\ ParentId(NodeOf(i)) = 0) =>
            /\ ResultOf(i).action = "failed"
            /\ ResultOf(i).error = "parent"
            /\ \A k \in CallsFor("createLocation") : calls[k].path /= sortedPaths[i]

\* C5: in a dry run no create or update call is ever issued and the server's
\* locations and devices stay as they were.
C5_DryRunIssuesNoCall ==
    dryRun => /\ calls = <<>>
              /\ remoteDevices = <<>>
              /\ Len(remoteLocations) <= MaxRemote

\* a finished dry run that reported a created location and a created device
C5_Witness ==
    /\ dryRun
    /\ pc = "done"
    /\ summary.locationsCreated > 0
    /\ summary.devicesCreated > 0

\* C7: with no device type imposed on the rows, the pass never throws and, once
\* past the unguarded Steps 0 to 3, never
\* stops short of its end, and at its end the result list holds
\* one location result per distinct path of the rows, in resolution order, followed
\* by one device result per row with a hardware id, in row order, and no other.
C7_ResultsExhaustive ==
    /\ pc /= "thrown"
    /\ pc \in {"locations", "hardware", "devices"} => ENABLED Next
    /\ pc = "done" =>
        LET n       == Len(sortedPaths)
            devRows == SelectSeq(rows, LAMBDA row : Get(row.device, "hardware_id") /= <<>>)
        IN  /\ {sortedPaths[i] : i \in 1..n} = RowPaths
            /\ Cardinality(RowPaths) = n
            /\ Len(summary.results) = n + Len(devRows)
            /\ \A i \in 1..n :
                /\ ResultOf(i).type = "location"
                /\ ResultOf(i).name = NodeOf(i).name
            /\ \A d \in 1..Len(devRows) :
                /\ ResultOf(n + d).type = "device"
                /\ ResultOf(n + d).row = devRows[d].rowNumber

\* a finished pass in which a location create call and a device create call failed
\* and a row had no hardware id
C7_Witness ==
    /\ pc = "done"
    /\ \E k \in CallsFor("createLocation") : ~calls[k].ok
    /\ \E k \in CallsFor("createDevice") : ~calls[k].ok
    /\ \E r \in 1..Len(rows) : Get(rows[r].device, "hardware_id") = <<>>

\* C9 (as claimed): no device create call is issued for a hardware id that the
\* registry lookup reported as existing.
C9_RegisteredIdSkipped ==
    \A k \in CallsFor("createDevice") : calls[k].name \notin registry

Shape(results) ==
    [k \in 1..Len(results) |->
        <<results[k].type, results[k].action, results[k].name>>]

\* the second pass is the real import that follows a dry run of the same input
RealAfterDry == run = 2 /\ pc = "done" /\ prev.dryRun /\ ~dryRun

\* the second pass follows a real import that recorded no failure
AfterSuccess == run = 2 /\ ~prev.dryRun

-----------------------------------------------------------------------------
(* The command's input checks, parsing and validation *)

\* parseCSV throws: the file has no non-blank line
ParseThrows == \A k \in 1..Len(csvFile.lines) : Trim(csvFile.lines[k]) = <<>>

\* the three conditions under which a mapping is refused
HierarchyEmpty == Len(hierarchy) = 0
DeviceMapped == \E f \in MappedFields(mappings) : StartsWithDevice(f)
HardwareIdUnmapped == DeviceMapped /\ "device.hardware_id" \notin MappedFields(mappings)
DeviceTypeUnmapped ==
    /\ DeviceMapped
    /\ "device.sensor_type" \notin MappedFields(mappings)
    /\ "device.device_type_id" \notin MappedFields(mappings)

\* the command line, the CSV file or the mapping is in error
InputError ==
    \/ ~csvFile.exists
    \/ ParseThrows
    \/ options.mapping = "unreadable"
    \/ HierarchyEmpty \/ HardwareIdUnmapped \/ DeviceTypeUnmapped
    \/ options.company = <<>>

\* C11: with a missing or empty CSV file, an unreadable or invalid mapping, or no
\* --company, the command issues no network request, never gets past its input
\* checks, and exits with a non-zero code.
C11_InputErrorBeforeNetwork ==
    InputError =>
        /\ ~networkUsed
        /\ pc \in {"exists", "parse", "mapping", "validate", "company", "exited"}
        /\ pc = "exited" => exitCode /= 0

\* the command got through parsing and validation with a device type to fetch and
\* exited for want of --company
C11_Witness ==
    /\ pc = "exited"
    /\ exitCode = 1
    /\ validation.valid
    /\ options.company = <<>>
    /\ deviceTypeId /= <<>>
    /\ ~networkUsed

HeaderLine == NonBlankLines(csvFile.lines)[1]
Detected == options.delimiter = "" /\ parsedCSV.delimiter /= ""
DelimiterSet == {Delimiters[i] : i \in 1..Len(Delimiters)}

\* C13 (as claimed): the detected delimiter is the candidate whose count in the
\* header line is strictly above every other candidate's, and comma when there is
\* no such candidate.
C13_StrictHighestOrComma ==
    Detected =>
        LET best == {c \in DelimiterSet :
                        \A d \in DelimiterSet \ {c} :
                            CountChar(HeaderLine, c) > CountChar(HeaderLine, d)}
        IN  IF best /= {} THEN parsedCSV.delimiter \in best ELSE parsedCSV.delimiter = ","

\* C13 (amended): the detected delimiter is the first candidate, in the order
\* comma, semicolon, tab, pipe, whose count no other candidate exceeds.
C13_FirstOfHighest ==
    Detected =>
        \E i \in 1..Len(Delimiters) :
            /\ parsedCSV.delimiter = Delimiters[i]
            /\ \A j \in 1..Len(Delimiters) :
                /\ CountChar(HeaderLine, Delimiters[j]) <= CountChar(HeaderLine, Delimiters[i])
                /\ j < i => CountChar(HeaderLine, Delimiters[j])
                                < CountChar(HeaderLine, Delimiters[i])

\* a header line without comma in which semicolon and pipe tie: semicolon is detected
C13_Witness ==
    /\ Detected
    /\ parsedCSV.delimiter = ";"
    /\ CountChar(HeaderLine, ";") = CountChar(HeaderLine, "|")
    /\ CountChar(HeaderLine, ",") = 0

\* line number, in the file, of the i-th data row: the (i+1)-th non-blank line
LineNumberOfRow(i) ==
    CHOOSE k \in 1..Len(csvFile.lines) :
        /\ Trim(csvFile.lines[k]) /= <<>>
        /\ Cardinality({j \in 1..k : Trim(csvFile.lines[j]) /= <<>>}) = i + 1

\* C20 (as claimed): the rowNumber of every ParsedRow is the line number of its
\* data row in the CSV file.
C20_RowNumberIsFileLine ==
    \A i \in 1..Len(rows) : rows[i].rowNumber = LineNumberOfRow(i)

\* the levels of the i-th row that stand before its first blank level
LevelsBeforeBlank(i) ==
    LET value(k) == Trim(Get(csvRows[i], hierarchy[k]))
        blank    == {k \in 1..Len(hierarchy) : value(k) = <<>>}
        n        == IF blank = {} THEN Len(hierarchy)
                    ELSE (CHOOSE k \in blank : \A j \in blank : k <= j) - 1
    IN  [k \in 1..n |-> [columnName |-> hierarchy[k], value |-> value(k)]]

\* C12: the locationHierarchy of every transformed row holds exactly the levels
\* before the row's first blank level, in hierarchy order, whatever the deeper
\* levels hold.
C12_HierarchyStopsAtBlank ==
    \A i \in 1..Len(rows) : rows[i].locationHierarchy = LevelsBeforeBlank(i)

\* a transformed row with a site, a blank building and a floor: one level is kept
C12_Witness ==
    /\ Len(rows) = 1
    /\ Len(hierarchy) = 3
    /\ Get(csvRows[1], hierarchy[2]) = <<>>
    /\ Get(csvRows[1], hierarchy[3]) /= <<>>
    /\ Len(rows[1].locationHierarchy) = 1

-----------------------------------------------------------------------------
(* The bodies of the create calls *)

\* C14: every attribute in the body of a location create call is the node's own
\* CSV value when the node has one, and the operator's default otherwise.
C14_MetaOverridesPerField ==
    \A k \in CallsFor("createLocation") :
        LET node == NodeAt(locationPaths, calls[k].path)
        IN  \A a \in LocationAttrs :
                Get(calls[k].body, a) =
                    IF Get(node.meta, a) /= <<>> THEN Get(node.meta, a)
                    ELSE Get(locationDefaults, a)

\* a location created with its own city and the default state, a default city
\* being given too
C14_Witness ==
    \E k \in CallsFor("createLocation") :
        /\ Get(locationDefaults, "city") = <<"d">>
        /\ Get(calls[k].body, "city") = <<"x">>
        /\ Get(calls[k].body, "state") = <<"d">>

\* C15: in the body of a device create call sensor_use, sensor_type and
\* device_category are the row's own values where the row has them, and the values
\* of the row's fetched template where it has not.
C15_RowOverridesTemplate ==
    \A k \in CallsFor("createDevice") :
        LET device   == rows[calls[k].row - 1].device
            id       == Get(device, "device_type_id")
            template == IF id \in DOMAIN templateMap THEN templateMap[id] ELSE EmptyMap
        IN  \A a \in TemplateAttrs :
                calls[k].body[a] =
                    IF Get(device, a) /= <<>> THEN Get(device, a) ELSE Get(template, a)

\* a device created with its own sensor use, the template offering another, and
\* with the template's category
C15_Witness ==
    \E k \in CallsFor("createDevice") :
        /\ \E id \in DOMAIN templateMap : Get(templateMap[id], "sensor_use") = <<"u">>
        /\ calls[k].body["sensor_use"] = <<"r">>
        /\ calls[k].body["device_category"] = <<"c">>

-----------------------------------------------------------------------------
(* The device loop and the dry run *)

\* positions, in the result list, of the device results of the row numbered n
DeviceResults(n) ==
    {k \in 1..Len(summary.results) :
        summary.results[k].type = "device" /\ summary.results[k].row = n}

\* the rows the device loop has been through
RowsDone == 1..(IF pc \in {"devices", "done"} THEN rowIdx - 1 ELSE 0)

\* the id that location resolution established for the row's deepest path, 0 if none
EstablishedId(row) ==
    LET path == getDeepestLocationPath(row, prefixLocationName)
    IN  IF path /= <<>> /\ path \in DOMAIN locationIdMap THEN locationIdMap[path] ELSE 0

\* C16 (as claimed): in a real run every device create call carries the id
\* established for the row's deepest path, and a row with a hardware id and no such
\* id is recorded as failed for want of a location, without a device create call.
C16_DeviceNeedsLocation ==
    ~dryRun =>
        /\ \A k \in CallsFor("createDevice") :
            /\ calls[k].parent_id /= 0
            /\ calls[k].parent_id = EstablishedId(rows[calls[k].row - 1])
        /\ \A r \in RowsDone :
            (HasDevice(rows[r]) /\ EstablishedId(rows[r]) = 0) =>
                /\ \E k \in DeviceResults(rows[r].rowNumber) :
                    /\ summary.results[k].action = "failed"
                    /\ summary.results[k].error = "location"
                /\ \A k \in CallsFor("createDevice") : calls[k].row /= rows[r].rowNumber

\* C17: a row whose device was created and whose settings update failed has exactly
\* one device result, created, with the device id and the warning; every created
\* result counts once in devicesCreated and none in devicesFailed.
C17_SettingsFailureIsWarning ==
    /\ \A k \in CallsFor("updateDevice") :
        ~calls[k].ok =>
            /\ calls[k - 1].op = "createDevice" /\ calls[k - 1].ok
            /\ Cardinality(DeviceResults(calls[k].row)) = 1
            /\ \A j \in DeviceResults(calls[k].row) :
                /\ summary.results[j].success
                /\ summary.results[j].action = "created"
                /\ summary.results[j].id /= 0
                /\ summary.results[j].error = "settings"
    /\ summary.devicesCreated =
          Cardinality({k \in 1..Len(summary.results) :
                          /\ summary.results[k].type = "device"
                          /\ summary.results[k].action = "created"})
    /\ summary.devicesFailed =
          Cardinality({k \in 1..Len(summary.results) :
                          /\ summary.results[k].type = "device"
                          /\ summary.results[k].action = "failed"})

\* a finished pass in which the settings update of one device failed and the
\* creation of another device failed
C17_Witness ==
    /\ pc = "done"
    /\ \E k \in CallsFor("updateDevice") : ~calls[k].ok
    /\ summary.devicesCreated = 1
    /\ summary.devicesFailed = 1

\* a dry run whose fetch of the existing locations failed
DryRunWithoutListing == dryRun /\ ~fetchOk /\ pc \notin {"start", "fetch"}

\* C19 (as claimed): at the end of a dry run whose fetch of the existing locations
\* failed, with a child location among the rows, some location is recorded as
\* failed for want of its parent.
C19_FetchFailureOrphans ==
    (/\ DryRunWithoutListing
     /\ pc = "done"
     /\ \E i \in Resolved : NodeOf(i).parentPath /= <<>>)
        => \E i \in Resolved :
              ResultOf(i).action = "failed" /\ ResultOf(i).error = "parent"

\* C19 (amended): in a dry run whose fetch of the existing locations failed, every
\* location is recorded as created, children included, and none as failed.
C19_FetchFailureAllCreated ==
    DryRunWithoutListing =>
        /\ \A i \in Resolved : ResultOf(i).success /\ ResultOf(i).action = "created"
        /\ summary.locationsFailed = 0
        /\ summary.locationsMatched = 0

\* a finished dry run that could not list the server's two locations and recorded a
\* child location as created
C19_Witness ==
    /\ DryRunWithoutListing
    /\ pc = "done"
    /\ Len(remoteLocations) = 2
    /\ \E i \in Resolved : NodeOf(i).parentPath /= <<>> /\ ResultOf(i).action = "created"

-----------------------------------------------------------------------------
(* The settings follow-up *)

\* C28: the properties object sent by a settings update carries the supplied value
\* of every settings key, and keeps the existing value of every key of the device's
\* existing properties that the settings do not supply.
C28_SettingsMergedIntoProperties ==
    \A k \in CallsFor("updateDevice") :
        /\ \A key \in DOMAIN deviceSettings :
            /\ key \in DOMAIN calls[k].body
            /\ calls[k].body[key] = deviceSettings[key]
        /\ deviceProperties.json = "object" =>
            \A key \in DOMAIN deviceProperties.entries \ DOMAIN deviceSettings :
                /\ key \in DOMAIN calls[k].body
                /\ calls[k].body[key] = deviceProperties.entries[key]

\* an update sent for a device that had a value for the settings key and for another
C28_Witness ==
    \E k \in CallsFor("updateDevice") :
        /\ calls[k].ok
        /\ deviceProperties.json = "object"
        /\ DOMAIN deviceProperties.entries = {"j", "k"}
        /\ calls[k].body = ("j" :> <<"old">>) @@ ("k" :> <<"v">>)

-----------------------------------------------------------------------------
(* The order of the pass and its summary *)

\* C21: every location is resolved before any device is processed: while a location
\* is still to be resolved there is no device result and no device call, and in the
\* result list and in the call list every location entry precedes every device entry.
C21_LocationsBeforeDevices ==
    /\ \A i, j \in 1..Len(summary.results) :
        (summary.results[i].type = "location" /\ summary.results[j].type = "device")
            => i < j
    /\ \A i, j \in 1..Len(calls) :
        (calls[i].op = "createLocation" /\ calls[j].op /= "createLocation") => i < j
    /\ pc \in {"start", "fetch", "locations", "hardware"} =>
        /\ \A k \in 1..Len(summary.results) : summary.results[k].type = "location"
        /\ \A k \in 1..Len(calls) : calls[k].op = "createLocation"
    /\ pc \in {"hardware", "devices", "done"} =>
        /\ locIdx > Len(sortedPaths)
        /\ \A i \in 1..Len(sortedPaths) : ResultOf(i).type = "location"

\* a finished real run that created two locations and then two devices
C21_Witness ==
    /\ pc = "done"
    /\ Cardinality(CallsFor("createLocation")) = 2
    /\ Cardinality(CallsFor("createDevice")) = 2
    /\ summary.results[2].type = "location"
    /\ summary.results[3].type = "device"

\* number of results recorded so far with the given type and action
Recorded(type, action) ==
    Cardinality({k \in 1..Len(summary.results) :
                    /\ summary.results[k].type = type
                    /\ summary.results[k].action = action})

\* C25: in every state of a pass each of the six counters is the number of results
\* recorded so far with its type and action, and every step leaves the results
\* recorded so far in place, adding new ones only at the end of the list.
C25_SummaryAppendOnly ==
    /\ [](/\ summary.locationsCreated = Recorded("location", "created")
          /\ summary.locationsMatched = Recorded("location", "matched")
          /\ summary.locationsFailed = Recorded("location", "failed")
          /\ summary.devicesCreated = Recorded("device", "created")
          /\ summary.devicesMatched = Recorded("device", "matched")
          /\ summary.devicesFailed = Recorded("device", "failed"))
    /\ [][/\ Len(summary.results') >= Len(summary.results)
          /\ SubSeq(summary.results', 1, Len(summary.results)) = summary.results]_vars

\* a finished pass that recorded a matched, a created and a failed entry
C25_Witness ==
    /\ pc = "done"
    /\ summary.locationsMatched = 1
    /\ summary.locationsCreated = 1
    /\ summary.devicesCreated = 1
    /\ summary.devicesFailed = 1

\* the row names a template that fetchTemplates did not obtain
TemplateUnavailable(row) ==
    /\ Get(row.device, "device_type_id") /= <<>>
    /\ Get(row.device, "device_type_id") \notin DOMAIN templateMap

\* C26: the template fetches and the registry lookup, failed or not, append no
\* result, change no counter and end nothing; the device pass then goes through
\* every row, recording one device result for each row with a hardware id, and a
\* device whose template is unavailable is created with the row's own values only.
C26_LookupFailuresSwallowed ==
    /\ [][(pc \in {"locations", "hardware"} /\ pc' \in {"hardware", "devices"} /\ pc' /= pc)
            => (summary' = summary /\ calls' = calls /\ exitCode' = exitCode)]_vars
    /\ [](pc = "done" =>
            \A r \in 1..Len(rows) :
                /\ r \in RowsDone
                /\ HasDevice(rows[r]) =>
                       Cardinality(DeviceResults(rows[r].rowNumber)) = 1)
    /\ [](\A k \in CallsFor("createDevice") :
            LET row == rows[calls[k].row - 1]
            IN  TemplateUnavailable(row) =>
                    \A a \in TemplateAttrs : calls[k].body[a] = Get(row.device, a))

\* a finished real run in which the fetch of the row's template and the registry
\* lookup both came back empty, and the device was created without a sensor use
C26_Witness ==
    /\ pc = "done"
    /\ registry = {}
    /\ \E k \in CallsFor("createDevice") :
        /\ calls[k].ok
        /\ TemplateUnavailable(rows[calls[k].row - 1])
        /\ calls[k].body["sensor_use"] = <<>>
        /\ calls[k].body["sensor_type"] = <<"r">>

-----------------------------------------------------------------------------
(* The attributes of a location node *)

\* the rows, in row order, whose deepest level is the given path
DeepestRows(path) ==
    {r \in 1..Len(rows) : getDeepestLocationPath(rows[r], prefixLocationName) = path}

\* C22 (as claimed): the meta of a node is the locationMeta of the first row whose
\* deepest level is the node's path, and is absent only when there is no such row.
C22_MetaOfFirstDeepestRow ==
    \A k \in 1..Len(locationPaths) :
        LET node == locationPaths[k]
            deep == DeepestRows(node.path)
        IN  IF deep = {} THEN ~node.hasMeta
            ELSE /\ node.hasMeta
                 /\ node.meta = rows[CHOOSE r \in deep : \A q \in deep : r <= q].locationMeta

-----------------------------------------------------------------------------
(* A listing that fails part of the way *)

\* the node has no parent, or its parent has an id in locationIdMap
ParentResolved(node) ==
    \/ node.parentPath = <<>>
    \/ node.parentPath \in DOMAIN locationIdMap /\ locationIdMap[node.parentPath] /= 0

\* C29: after a fetch of the existing locations in which some request failed,
\* whatever pages had been received, the pass works with an empty remote path map:
\* no location is recorded as matched, and in a real run a create call has been
\* issued for every resolved node whose parent was resolved.
C29_FailedPageEmptiesListing ==
    (~fetchOk /\ pc \notin {"start", "fetch"}) =>
        /\ existingLocations = EmptyMap
        /\ summary.locationsMatched = 0
        /\ \A i \in Resolved : ResultOf(i).action /= "matched"
        /\ ~dryRun =>
            \A i \in Resolved :
                ParentResolved(NodeOf(i)) =>
                    \E k \in CallsFor("createLocation") : calls[k].path = NodeOf(i).path

\* a real run whose second listing request failed and which then created anew a
\* root location that the first page had listed
C29_Witness ==
    /\ ~dryRun
    /\ ~fetchOk
    /\ Len(allLocations) = 1
    /\ allLocations[1].parent_id = 0
    /\ \E k \in CallsFor("createLocation") :
        /\ calls[k].ok
        /\ calls[k].parent_id = 0
        /\ calls[k].name = allLocations[1].name

-----------------------------------------------------------------------------
(* A listing whose parent links form a cycle *)

\* every request of the listing succeeded, so that the paths were reconstructed
\* from the whole listing
ListingComplete ==
    /\ pc \notin {"start", "fetch"}
    /\ Len(allLocations) =
          Len(remoteLocations)
              - Cardinality({k \in CallsFor("createLocation") : calls[k].ok})

\* C27 (as claimed): when the listing holds a location that is its own ancestor, the
\* reconstruction of the paths ends and the cycle is reported as an error: the pass
\* stops with a failure instead of going on.
C27_CycleReported ==
    (ListingComplete /\ PathsThrow(allLocations)) => (pc = "thrown" /\ exitCode = 1)

-----------------------------------------------------------------------------
(* The mapping the operator enters *)

\* the columns whose stored mapping contains the hierarchy target, in mapping order
HierarchyMapped ==
    LET holders == SelectSeq(mappings,
                             LAMBDA m : \E k \in 1..Len(m.targets) :
                                            m.targets[k] = HierarchyTarget)
    IN  [k \in 1..Len(holders) |-> holders[k].column]

\* C23 (as claimed): while and after the columns are mapped, hierarchy.columns lists
\* exactly the columns whose mapping contains location.hierarchy, in selection
\* order, whether the hierarchy target was chosen first or as the second target.
C23_HierarchyListsMappedColumns ==
    pc \in {"interactive", "validate"} => hierarchy = HierarchyMapped

\* the single-valued fields of the menu
SingleValued == {"location.city", "device.hardware_id"}

\* C24 (as claimed): the column index never goes below zero, and a step back to the
\* previous column leaves the column mappings, hierarchy.columns and the used
\* single-valued targets as they were just before that column was mapped.
C24_UndoRestores ==
    /\ [](colIdx >= 0)
    /\ [][colIdx' < colIdx =>
            /\ colIdx' = colIdx - 1
            /\ mappings' = snapshots[colIdx].mappings
            /\ hierarchy' = snapshots[colIdx].hierarchy
            /\ alreadyMapped' \cap SingleValued
                  = snapshots[colIdx].alreadyMapped \cap SingleValued]_vars

\* a target that transformRows gives a meaning to
ValidTarget(t) ==
    \/ t = HierarchyTarget
    \/ IsLocationTarget(t)
    \/ IsDeviceTarget(t)
    \/ IsMetadataTarget(t)

\* C30 (as claimed): every target stored in the column mapping is the hierarchy
\* target, a location or device field or a metadata target with its key (a skipped
\* column stores none), and no single-valued field is stored for two columns.
C30_StoredTargetsValid ==
    /\ \A k \in 1..Len(mappings) :
        \A j \in 1..Len(mappings[k].targets) : ValidTarget(mappings[k].targets[j])
    /\ \A k, j \in 1..Len(mappings) :
        \A f \in SingleValued :
            (/\ \E n \in 1..Len(mappings[k].targets) : mappings[k].targets[n] = f
             /\ \E n \in 1..Len(mappings[j].targets) : mappings[j].targets[n] = f)
                => k = j

====
